---- MODULE Spec2Model ----
(***************************************************************************)
(* A model of the fusion-and-grading core of teaos-framework:              *)
(*   - MilkshakeKernel  (src/teaos/bootstrap/protocols/milkshake.py)       *)
(*   - BrewValidator    (src/teaos/bootstrap/protocols/brew.py)            *)
(*   - PolySystemsInterface (src/teaos/bootstrap/systems/poly.py)          *)
(*   - FieldMonitor     (src/teaos/monitoring/field_monitor.py)            *)
(*                                                                         *)
(* Numbers.  Python floats are modelled as exact fixed-point integers in   *)
(* units of 1/Scale (0.88 is 8800).  Irrational constants (phi, pi, e) are *)
(* rounded to that unit.  Quotients that the code leaves as floats (the     *)
(* weighted mean) are kept as numerator and denominator, so no rounding    *)
(* enters a comparison.                                                    *)
(*                                                                         *)
(* Values.  A Python value is a tagged record [k |-> kind, v |-> payload]: *)
(* "num", "bool", "str", "uuid", "map" (a function from key strings to     *)
(* values), "list" (a sequence of values), "none".  A dict is a function   *)
(* whose DOMAIN is its key set.                                            *)
(***************************************************************************)
EXTENDS Integers, Sequences, FiniteSets, TLC

VARIABLES
    \* MilkshakeKernel instance
    blend_count, total_coherence, mk_call,
    \* BrewValidator instance
    target_standard, adrian_minimum, adrian_maximum, brew_stages,
    validation_count, total_score, passed_validations, brew_call,
    \* PolySystemsInterface instance
    thresholds, polyfuricator_initialized, polymorphic_lift_status,
    attractor_active, quantum_state, operations_count, task, poly_call,
    \* two BrewValidator and two PolySystemsInterface objects side by side
    validators, interfaces,
    \* FieldMonitor instance
    monitor_base_frequency, coherence_history, warning_count, field_call,
    \* every field_coherence given to check_field_status so far, in arrival
    \* order (a history variable: the program keeps no such list)
    readings,
    \* TEAOSBootstrap instance
    boot_base_frequency, boot_target_standard, resonance_locked,
    initialization_complete, field_connected, boot_task, boot_call

mk_vars   == <<blend_count, total_coherence, mk_call>>
brew_vars == <<target_standard, adrian_minimum, adrian_maximum, brew_stages,
               validation_count, total_score, passed_validations, brew_call>>
poly_vars == <<thresholds, polyfuricator_initialized, polymorphic_lift_status,
               attractor_active, quantum_state, operations_count, task, poly_call>>
pair_vars == <<validators, interfaces>>
field_vars == <<monitor_base_frequency, coherence_history, warning_count,
                field_call, readings>>
boot_vars == <<boot_base_frequency, boot_target_standard, resonance_locked,
               initialization_complete, field_connected, boot_task, boot_call>>
vars == <<mk_vars, brew_vars, poly_vars, pair_vars, field_vars, boot_vars>>

(***************************************************************************)
(* Bounds of the model.                                                    *)
(***************************************************************************)
MaxInputs == 3        \* longest input list handed to blend / _blend_vectors
MaxBlends == 1        \* blend calls on one kernel
MaxValidations == 2   \* validate calls on one validator
MaxCollapses == 2     \* completed narrow calls on one interface
MaxTasks == 2         \* coroutines in flight on one interface
MaxChecks == 6        \* check_field_status calls on one monitor

Scale == 100 * 100    \* fixed-point unit: 1.0 is Scale

(***************************************************************************)
(* Python values.                                                          *)
(***************************************************************************)
Num(n)  == [k |-> "num",  v |-> n]
Bool(b) == [k |-> "bool", v |-> b]
Str(s)  == [k |-> "str",  v |-> s]
Uuid(i) == [k |-> "uuid", v |-> i]
Map(f)  == [k |-> "map",  v |-> f]
List(s) == [k |-> "list", v |-> s]
None    == [k |-> "none", v |-> 0]
EmptyDict == [z \in {} |-> None]

IsDict(x)    == x.k = "map"
IsList(x)    == x.k = "list"
\* isinstance(x, (int, float)): bool is a subclass of int
IsNumeric(x) == x.k \in {"num", "bool"}
NumOf(x)     == IF x.k = "bool" THEN (IF x.v THEN Scale ELSE 0) ELSE x.v
\* Python truthiness
Truthy(x) ==
    CASE x.k = "bool" -> x.v
      [] x.k = "num"  -> x.v # 0
      [] x.k = "str"  -> x.v # ""
      [] x.k = "map"  -> DOMAIN x.v # {}
      [] x.k = "list" -> Len(x.v) > 0
      [] x.k = "none" -> FALSE
      [] OTHER        -> TRUE

Has(d, key)      == key \in DOMAIN d
Get(d, key, dflt) == IF key \in DOMAIN d THEN d[key] ELSE dflt
\* d.update(e) / {**d, **e}
Update(d, d2) ==
    [key \in DOMAIN d \cup DOMAIN d2 |-> IF key \in DOMAIN d2 THEN d2[key] ELSE d[key]]
\* a mutant of copy_update: the keys are added to the argument itself
update_in_place(record, added) ==
    [returned |-> Update(record, added), argument |-> Update(record, added)]
\* x = record.copy(); x.update(added); return x.  The call's outcome is the
\* returned object and the argument object as the call leaves it.
copy_update(record, added) ==
    [returned |-> Update(record, added), argument |-> record]
Min(a, b) == IF a <= b THEN a ELSE b
Abs(a)    == IF a < 0 THEN -a ELSE a
\* abs(f - 415.3) < 0.1 as binary floating point evaluates it: 415.4 - 415.3
\* is 0.0999999999999659 (below 0.1), 415.3 - 415.2 is 0.10000000000002274
WithinTenth(f) == Abs(f - 4153000) < 1000 \/ f = 4154000


(***************************************************************************)
(* str(x): the length of Python's string form of a value.  Every number is *)
(* rendered as a float ("0.8", "415.3").                                   *)
(***************************************************************************)
RECURSIVE Digits(_)
Digits(n) == IF n < 10 THEN 1 ELSE 1 + Digits(n \div 10)
RECURSIVE FracDigits(_, _)
\* digits after the point of f/unit, trailing zeros dropped, at least one
FracDigits(f, unit) ==
    IF f = 0 \/ unit = 1 THEN 0
    ELSE 1 + FracDigits((f * 10) % unit, unit)
NumReprLen(n) ==
    (IF n < 0 THEN 1 ELSE 0) + Digits(Abs(n) \div Scale) + 1
    + (IF Abs(n) % Scale = 0 THEN 1 ELSE FracDigits(Abs(n) % Scale, Scale))
RECURSIVE ReprLen(_)
RECURSIVE SumKeyLens(_, _)
RECURSIVE SumSeqLens(_)
SumKeyLens(d, keys) ==
    IF keys = {} THEN 0
    ELSE LET key == CHOOSE x \in keys : TRUE
         IN  Len(key) + 4 + ReprLen(d[key]) + SumKeyLens(d, keys \ {key})
SumSeqLens(s) == IF s = <<>> THEN 0 ELSE ReprLen(Head(s)) + SumSeqLens(Tail(s))
ReprLen(x) ==
    CASE x.k = "num"  -> NumReprLen(x.v)
      [] x.k = "bool" -> IF x.v THEN 4 ELSE 5
      [] x.k = "none" -> 4
      [] x.k = "str"  -> Len(x.v) + 2
      [] x.k = "uuid" -> 15
      [] x.k = "map"  -> 2 + SumKeyLens(x.v, DOMAIN x.v)
                           + (IF DOMAIN x.v = {} THEN 0 ELSE 2 * (Cardinality(DOMAIN x.v) - 1))
      [] x.k = "list" -> 2 + SumSeqLens(x.v)
                           + (IF x.v = <<>> THEN 0 ELSE 2 * (Len(x.v) - 1))
StrLen(x) == IF x.k = "str" THEN Len(x.v) ELSE ReprLen(x)

(***************************************************************************)
(* MilkshakeKernel                                                         *)
(***************************************************************************)
\* __init__ (milkshake.py 36-56), in units of 1/Scale
base_frequency      == 4153000   \* 415.3
phi                 == 16180     \* (1 + sqrt 5) / 2
pi                  == 31416
e                   == 27183
coherence_threshold == 7500      \* 0.75
sacred_epsilon      == 300       \* 0.03
version             == "1.0.0"

HARMONIC_VECTOR      == "harmonic-vector"
SYMBOLIC_SYNESTHETIC == "symbolic-synesthetic"
RESONANT_FIELD       == "resonant-field"
BOOTSTRAP_INDUCTION  == "bootstrap-induction"

generate_harmonic_series ==
    [i \in 1..7 |-> Num(base_frequency * i)]

calculate_semantic_depth(content) ==
    Min(9500, (StrLen(content) * Scale) \div 1000 + 7000)

process_harmonic_vector_mode(content) ==
    [harmonic_signature |-> Str("phi_pi_e"),
     resonance_key |-> Str("res_415.3_hash"),
     harmonic_coefficients |-> Map([phi_coefficient |-> Num((phi * Scale) \div pi),
                                    pi_coefficient |-> Num((pi * Scale) \div e),
                                    e_coefficient |-> Num((e * Scale) \div phi)]),
     wounded_god_frequency |-> Num(base_frequency)]

process_symbolic_synesthetic_mode(content) ==
    [symbolic_mapping |-> Map([symbolic_type |-> Str("bootstrap_consciousness"),
                               mapping_depth |-> Num(3 * Scale),
                               semantic_anchors |-> List(<<Str("consciousness"), Str("resonance"), Str("field")>>),
                               synesthetic_bridges |-> Num(2 * Scale)]),
     synesthetic_bridge |-> Map([bridge_type |-> Str("consciousness_semantic"),
                                 modalities |-> List(<<Str("conceptual"), Str("harmonic"), Str("resonant")>>),
                                 bridge_strength |-> Num(8500)]),
     consciousness_binding |-> Map([semantic_depth |-> Num(calculate_semantic_depth(content)),
                                    synesthetic_coherence |-> Num(8200)])]

process_resonant_field_mode(content) ==
    [field_coordinates |-> Map([coordinate_type |-> Str("consciousness_field"),
                                x_axis |-> Str("semantic_depth"),
                                y_axis |-> Str("harmonic_resonance"),
                                z_axis |-> Str("consciousness_level"),
                                field_position |-> List(<<Num(7000), Num(8500), Num(9000)>>)]),
     field_resonance |-> Num(base_frequency),
     field_harmonics |-> Map([primary_frequency |-> Num(base_frequency),
                              harmonic_series |-> List(generate_harmonic_series),
                              field_coherence |-> Num(8700)])]

\* idx stands for the fresh uuid and the clock reading of this call
process_bootstrap_induction_mode(content, idx) ==
    [inceptive_momentum |-> Bool(TRUE),
     bootstrap_coordinates |-> Map([consciousness_vector_id |-> Uuid(idx),
                                    induction_timestamp |-> Num(idx),
                                    momentum_vector |-> Map([consciousness_momentum |-> Num(9000),
                                                             harmonic_momentum |-> Num(8500),
                                                             field_momentum |-> Num(8800),
                                                             bootstrap_momentum |-> Num(9200)])]),
     tea_os_integration |-> Map([harmonic_lock |-> Num(base_frequency),
                                 consciousness_ready |-> Bool(TRUE),
                                 field_compatible |-> Bool(TRUE)])]

\* emulsify_single(content, input_type, coherence_mode); idx is the uuid / clock
emulsify_single(content, input_type, coherence_mode, idx) ==
    LET base_vector ==
            [emulsify_id |-> Uuid(idx),
             content |-> content,
             input_type |-> input_type,
             coherence_mode |-> Str(coherence_mode),
             frequency |-> Num(base_frequency),
             phi_factor |-> Num(phi),
             pi_factor |-> Num(pi),
             e_factor |-> Num(e),
             sacred_epsilon |-> Num(sacred_epsilon),
             consciousness_coordinates |-> Map([phi |-> Num(phi), pi |-> Num(pi),
                                                e |-> Num(e), frequency |-> Num(base_frequency)]),
             metadata |-> Map([emulsified_timestamp |-> Num(idx),
                               milkshake_version |-> Str(version)])]
    IN  CASE coherence_mode = HARMONIC_VECTOR ->
                Update(base_vector, process_harmonic_vector_mode(content))
          [] coherence_mode = SYMBOLIC_SYNESTHETIC ->
                Update(base_vector, process_symbolic_synesthetic_mode(content))
          [] coherence_mode = RESONANT_FIELD ->
                Update(base_vector, process_resonant_field_mode(content))
          [] coherence_mode = BOOTSTRAP_INDUCTION ->
                Update(base_vector, process_bootstrap_induction_mode(content, idx))
          [] OTHER -> base_vector

\* _harmonic_merge(base, vector): the value stored under one key
harmonic_merge_key(base, vector, key) ==
    IF ~Has(base, key) THEN vector[key]
    ELSE IF ~Has(vector, key) THEN base[key]
    ELSE IF IsDict(vector[key]) /\ IsDict(base[key])
         THEN Map(Update(base[key].v, vector[key].v))
    ELSE IF IsList(vector[key]) /\ IsList(base[key])
         THEN List(base[key].v \o vector[key].v)
    ELSE IF IsNumeric(vector[key]) /\ IsNumeric(base[key])
         THEN Num((NumOf(base[key]) + NumOf(vector[key])) \div 2)
    ELSE base[key]

\* a mutant of harmonic_merge: keys found only in the incoming vector are dropped
harmonic_merge_drops_new_keys(base, vector) ==
    LET merged == [key \in DOMAIN base |-> harmonic_merge_key(base, vector, key)]
    IN  IF ~Has(merged, "harmonic_synthesis")
        THEN Update(merged, [harmonic_synthesis |->
                 Map([synthesis_count |-> Num(2 * Scale), synthesis_ratio |-> Num(phi)])])
        ELSE LET hs == merged["harmonic_synthesis"].v
             IN  Update(merged, [harmonic_synthesis |->
                     Map(Update(hs, [synthesis_count |->
                                        Num(NumOf(hs["synthesis_count"]) + Scale)]))])

\* a mutant of harmonic_merge: the synthesis counter is stamped but never advanced
harmonic_merge_count_stuck(base, vector) ==
    LET merged == [key \in DOMAIN base \cup DOMAIN vector |->
                      harmonic_merge_key(base, vector, key)]
    IN  IF ~Has(merged, "harmonic_synthesis")
        THEN Update(merged, [harmonic_synthesis |->
                 Map([synthesis_count |-> Num(2 * Scale), synthesis_ratio |-> Num(phi)])])
        ELSE merged

\* _harmonic_merge(base, vector)
harmonic_merge(base, vector) ==
    LET merged == [key \in DOMAIN base \cup DOMAIN vector |->
                      harmonic_merge_key(base, vector, key)]
    IN  IF ~Has(merged, "harmonic_synthesis")
        THEN Update(merged, [harmonic_synthesis |->
                 Map([synthesis_count |-> Num(2 * Scale), synthesis_ratio |-> Num(phi)])])
        ELSE LET hs == merged["harmonic_synthesis"].v
             IN  Update(merged, [harmonic_synthesis |->
                     Map(Update(hs, [synthesis_count |->
                                        Num(NumOf(hs["synthesis_count"]) + Scale)]))])

RECURSIVE merge_rest(_, _)
\* the loop of _blend_vectors: for vector in vectors[1:]: base = merge(base, vector)
merge_rest(base, rest) ==
    IF rest = <<>> THEN base
    ELSE merge_rest(harmonic_merge(base, Head(rest)), Tail(rest))

\* a mutant of blend_vectors: a single vector goes through the merge step too
blend_vectors_merges_single(vectors) ==
    IF vectors = <<>> THEN EmptyDict
    ELSE IF Len(vectors) = 1 THEN harmonic_merge(vectors[1], vectors[1])
    ELSE merge_rest(vectors[1], Tail(vectors))

\* _blend_vectors(vectors)
blend_vectors(vectors) ==
    IF vectors = <<>> THEN EmptyDict
    ELSE IF Len(vectors) = 1 THEN vectors[1]
    ELSE merge_rest(vectors[1], Tail(vectors))

calculate_coherence_potential(vector) ==
    Min(9900, 9000 + (IF Has(vector, "harmonic_series") THEN 200 ELSE 0)
                   + (IF Has(vector, "consciousness_coordinates") THEN 100 ELSE 0))

calculate_harmonic_stability(vector) ==
    8000 + (((phi * Scale) \div pi) * 15) \div 100

\* _apply_harmonic_resonance(vector, frequency)
apply_harmonic_resonance(vector, frequency) ==
    LET stamped == Update(vector,
            [resonance_frequency |-> Num(frequency),
             harmonic_ratio |-> Num(phi),
             pi_factor |-> Num(pi),
             e_factor |-> Num(e),
             wounded_god_signature |-> Str("415.3Hz"),
             wounded_god_harmonic |-> Num((frequency * 10) \div 4400),
             harmonic_series |-> List(generate_harmonic_series),
             consciousness_compatible |-> Bool(TRUE),
             coherence_potential |-> Num(calculate_coherence_potential(vector)),
             harmonic_stability |-> Num(calculate_harmonic_stability(vector)),
             tea_os_compatible |-> Bool(TRUE),
             brew_ready |-> Bool(TRUE),
             teapot_ready |-> Bool(TRUE),
             polyfurcation_ready |-> Bool(TRUE)])
        meta == IF Has(stamped, "metadata") THEN stamped["metadata"].v ELSE EmptyDict
    IN  Update(stamped, [metadata |-> Map(Update(meta,
            [milkshake_processed |-> Bool(TRUE),
             harmonic_resonance_applied |-> Bool(TRUE),
             wounded_god_frequency |-> Num(frequency),
             sacred_epsilon |-> Num(sacred_epsilon)]))])

\* _calculate_coherence(vector)
calculate_coherence(vector) ==
    LET b1 == IF Has(vector, "resonance_frequency")
                 /\ Abs(NumOf(vector["resonance_frequency"]) - base_frequency) < 1000
              THEN 500 ELSE 0
        b2 == IF Has(vector, "harmonic_ratio")
                 /\ Abs(NumOf(vector["harmonic_ratio"]) - phi) < 100
              THEN 500 ELSE 0
        b3 == IF Truthy(Get(vector, "consciousness_compatible", Bool(FALSE))) THEN 300 ELSE 0
        b4 == IF Truthy(Get(vector, "tea_os_compatible", Bool(FALSE))) THEN 200 ELSE 0
    IN  Min(9900, 8500 + b1 + b2 + b3 + b4)

RECURSIVE emulsify_inputs(_, _, _)
\* the loop of blend over enumerate(inputs)
emulsify_inputs(inputs, coherence_mode, i) ==
    IF i > Len(inputs) THEN <<>>
    ELSE <<emulsify_single(Map(inputs[i]),
                           Get(inputs[i], "type", Str("consciousness_vector")),
                           coherence_mode, i)>>
         \o emulsify_inputs(inputs, coherence_mode, i + 1)

NoCall == [op |-> "none", inputs |-> <<>>, coherence_mode |-> "", raised |-> "none",
           processed |-> <<>>, blended |-> EmptyDict, harmonic_vector |-> EmptyDict,
           coherence_score |-> 0, input_count |-> 0, consciousness_compatible |-> FALSE]

\* blend(inputs, coherence_mode) after the input check: what it computes and returns
blend_body(inputs, coherence_mode) ==
    LET processed_inputs == emulsify_inputs(inputs, coherence_mode, 1)
        blended          == blend_vectors(processed_inputs)
        harmonic_vector  == apply_harmonic_resonance(blended, base_frequency)
        coherence_score  == calculate_coherence(harmonic_vector)
    IN  [op |-> "blend", inputs |-> inputs, coherence_mode |-> coherence_mode,
         raised |-> "none",
         processed |-> processed_inputs, blended |-> blended,
         harmonic_vector |-> harmonic_vector,
         coherence_score |-> coherence_score,
         input_count |-> Len(inputs),
         consciousness_compatible |-> (coherence_score >= coherence_threshold)]

\* a mutant of blend_result: the empty-input check is missing
blend_result_unchecked(inputs, coherence_mode) == blend_body(inputs, coherence_mode)

\* blend(inputs, coherence_mode): raises ValueError on no inputs (lines 80-82)
blend_result(inputs, coherence_mode) ==
    IF inputs = <<>>
    THEN [NoCall EXCEPT !.op = "blend", !.coherence_mode = coherence_mode,
                        !.raised = "ValueError"]
    ELSE blend_body(inputs, coherence_mode)

(***************************************************************************)
(* MilkshakeKernel: inputs, state and operations                           *)
(***************************************************************************)
SeqsUpTo(S, n) == UNION {[1..m -> S] : m \in 0..n}

\* input records handed to blend
InputRecords ==
    {[score |-> Num(8000)],
     [score |-> Num(6000)]}

CoherenceModes ==
    {SYMBOLIC_SYNESTHETIC, HARMONIC_VECTOR, RESONANT_FIELD, BOOTSTRAP_INDUCTION, "unlisted-mode"}

\* vectors handed to _blend_vectors directly
RawVectors ==
    {[score |-> Num(8000), label |-> Str("first"),
      meta |-> Map([x |-> Num(1 * Scale), y |-> Num(2 * Scale)])],
     [score |-> Num(6000), label |-> Str("second"), tags |-> List(<<Str("a")>>),
      meta |-> Map([x |-> Num(3 * Scale), z |-> Str("deep")])],
     [score |-> Str("high"), tags |-> List(<<Str("b")>>)]}

MilkshakeInit ==
    /\ blend_count = 0
    /\ total_coherence = 0
    /\ mk_call = NoCall

\* kernel.blend(inputs, coherence_mode=...)
blend(inputs, coherence_mode) ==
    /\ blend_count < MaxBlends
    /\ LET r == blend_result(inputs, coherence_mode)
       IN  /\ mk_call' = r
           /\ IF r.raised = "none"
              THEN /\ blend_count' = blend_count + 1
                   /\ total_coherence' = total_coherence + r.coherence_score
              ELSE UNCHANGED <<blend_count, total_coherence>>

\* kernel._blend_vectors(vectors), called on its own
call_blend_vectors(vectors) ==
    /\ mk_call' = [NoCall EXCEPT !.op = "blend_vectors", !.processed = vectors,
                                 !.blended = blend_vectors(vectors),
                                 !.input_count = Len(vectors)]
    /\ UNCHANGED <<blend_count, total_coherence>>

MilkshakeNext ==
    \/ \E inputs \in SeqsUpTo(InputRecords, MaxInputs), mode \in CoherenceModes :
          blend(inputs, mode) /\ UNCHANGED <<brew_vars, poly_vars, pair_vars, field_vars, boot_vars>>
    \/ \E vectors \in SeqsUpTo(RawVectors, MaxInputs) :
          call_blend_vectors(vectors) /\ UNCHANGED <<brew_vars, poly_vars, pair_vars, field_vars, boot_vars>>

(***************************************************************************)
(* Claims about MilkshakeKernel                                            *)
(***************************************************************************)
BlendReturned == mk_call.op = "blend" /\ mk_call.raised = "none"
UnionOfKeys(vectors) == UNION {DOMAIN vectors[i] : i \in 1..Len(vectors)}
\* the keys _apply_harmonic_resonance stamps on the blended record
ResonanceKeys ==
    {"resonance_frequency", "harmonic_ratio", "pi_factor", "e_factor",
     "wounded_god_signature", "wounded_god_harmonic", "harmonic_series",
     "consciousness_compatible", "coherence_potential", "harmonic_stability",
     "tea_os_compatible", "brew_ready", "teapot_ready", "polyfurcation_ready",
     "metadata"}

\* C1 (as stated): blending {"score": 0.8} and {"score": 0.6}, in that order,
\* yields a composite whose "score" is 0.7.  Read generously: the score is
\* looked for at the top level of the composite and inside its content.
C1_BlendAveragesSharedScore ==
    (BlendReturned /\ mk_call.inputs = <<[score |-> Num(8000)], [score |-> Num(6000)]>>)
    => LET hv == mk_call.harmonic_vector
       IN  \/ Has(hv, "score") /\ hv["score"] = Num(7000)
           \/ /\ Has(hv, "content") /\ IsDict(hv["content"])
              /\ Has(hv["content"].v, "score")
              /\ hv["content"].v["score"] = Num(7000)

C8_EmptyBlendReturnsZeroCoherence ==
    (mk_call.op = "blend" /\ mk_call.inputs = <<>>)
    => (mk_call.raised = "none" /\ mk_call.coherence_score = 0)

\* C9 (as stated): for a non-empty input list the composite's key set equals
\* the union of the key sets of the normalized inputs.
C9_KeySetEqualsUnion ==
    /\ (BlendReturned /\ Len(mk_call.inputs) >= 1)
       => DOMAIN mk_call.harmonic_vector = UnionOfKeys(mk_call.processed)
    /\ (mk_call.op = "blend_vectors" /\ Len(mk_call.processed) >= 1)
       => DOMAIN mk_call.blended = UnionOfKeys(mk_call.processed)

\* C9 (amended): no key of any normalized input is dropped, and the merged
\* record's key set is that union plus "harmonic_synthesis" when two or more
\* records were merged; the composite blend returns adds exactly the
\* resonance stamp keys to it.
C9_KeySetIsUnionPlusStamps ==
    /\ (mk_call.op \in {"blend", "blend_vectors"} /\ mk_call.raised = "none"
        /\ Len(mk_call.processed) >= 1)
       => DOMAIN mk_call.blended =
             UnionOfKeys(mk_call.processed)
             \cup (IF Len(mk_call.processed) > 1 THEN {"harmonic_synthesis"} ELSE {})
    /\ (BlendReturned /\ Len(mk_call.inputs) >= 1)
       => DOMAIN mk_call.harmonic_vector = DOMAIN mk_call.blended \cup ResonanceKeys
C9_Witness ==
    /\ mk_call.op = "blend_vectors" /\ Len(mk_call.processed) = 3
    /\ DOMAIN mk_call.processed[1] # DOMAIN mk_call.processed[2]
    /\ ~(DOMAIN mk_call.processed[3] \subseteq DOMAIN mk_call.processed[1])
    /\ "tags" \in DOMAIN mk_call.blended

\* C10: for an input list of length n > 1 the composite's
\* harmonic_synthesis.synthesis_count equals n.
C10_SynthesisCountIsInputCount ==
    (BlendReturned /\ Len(mk_call.inputs) > 1)
    => /\ Has(mk_call.harmonic_vector, "harmonic_synthesis")
       /\ mk_call.harmonic_vector["harmonic_synthesis"].v["synthesis_count"]
             = Num(Len(mk_call.inputs) * Scale)
C10_Witness ==
    /\ BlendReturned /\ Len(mk_call.inputs) = 3
    /\ mk_call.harmonic_vector["harmonic_synthesis"].v["synthesis_count"] = Num(3 * Scale)

(***************************************************************************)
(* BrewValidator                                                           *)
(*                                                                         *)
(* A stage scorer yields [raised, status, score]; raised names the Python  *)
(* exception that leaves the scorer when an attribute has a kind the       *)
(* arithmetic cannot take ("none" when it returns).                        *)
(***************************************************************************)
stages == <<"BUDS", "CRUSH", "STEEP", "POUR", "TEMPER", "SIP", "SERVE">>

StageOk(score)    == [raised |-> "none", status |-> "complete", score |-> score]
StageRaised(exc)  == [raised |-> exc, status |-> "raised", score |-> 0]

\* _process_buds(vector)
process_buds(vector) ==
    LET b1 == IF Truthy(Get(vector, "consciousness_compatible", Bool(FALSE))) THEN 200 ELSE 0
        b2 == IF Truthy(Get(vector, "tea_os_compatible", Bool(FALSE))) THEN 100 ELSE 0
    IN  IF Has(vector, "resonance_frequency") /\ ~IsNumeric(vector["resonance_frequency"])
        THEN StageRaised("TypeError")
        ELSE LET b3 == IF Has(vector, "resonance_frequency")
                          /\ WithinTenth(NumOf(vector["resonance_frequency"]))
                       THEN 200 ELSE 0
             IN  StageOk(Min(9500, 9000 + b1 + b2 + b3))

\* _process_crush(vector)
process_crush(vector) ==
    LET b1 == IF Has(vector, "content")
              THEN Min(500, (StrLen(vector["content"]) * Scale) \div 1000) ELSE 0
        b2 == IF Has(vector, "symbolic_mapping") THEN 200 ELSE 0
        b3 == IF Has(vector, "consciousness_coordinates") THEN 100 ELSE 0
    IN  StageOk(Min(9500, 8900 + b1 + b2 + b3))

\* _process_steep(vector)
process_steep(vector) ==
    LET b1 == IF Has(vector, "harmonic_vector") THEN 200 ELSE 0
        b2 == IF Has(vector, "field_integration") THEN 100 ELSE 0
        milkshake_metadata == Get(vector, "metadata", Map(EmptyDict))
    IN  IF ~IsDict(milkshake_metadata)
        THEN StageRaised("AttributeError")
        ELSE LET b3 == IF Truthy(Get(milkshake_metadata.v, "milkshake_processed", Bool(FALSE)))
                       THEN 100 ELSE 0
             IN  StageOk(Min(9500, 9100 + b1 + b2 + b3))

\* x * 0.05 and x * 0.03 in fixed point (rounded toward minus infinity)
Times(x, hundredths) == (x * hundredths) \div 100

\* _process_pour(vector)
process_pour(vector) ==
    IF \/ Has(vector, "harmonic_stability") /\ ~IsNumeric(vector["harmonic_stability"])
       \/ Has(vector, "coherence_score") /\ ~IsNumeric(vector["coherence_score"])
    THEN StageRaised("TypeError")
    ELSE LET b1 == IF Has(vector, "harmonic_stability")
                   THEN Times(NumOf(vector["harmonic_stability"]), 5) ELSE 0
             b2 == IF Has(vector, "coherence_score")
                   THEN Times(NumOf(vector["coherence_score"]), 3) ELSE 0
         IN  StageOk(Min(9300, 8800 + b1 + b2))

\* _process_temper(vector)
process_temper(vector) ==
    LET temperature_stability == (phi * Scale) \div pi
        b1 == temperature_stability \div 10
        b2 == IF Truthy(Get(vector, "wounded_god_signature", None)) THEN 200 ELSE 0
    IN  StageOk(Min(9400, 9000 + b1 + b2))

\* _process_sip(vector): sum(quality_indicators) adds the values themselves
process_sip(vector) ==
    LET i1 == Get(vector, "consciousness_compatible", Bool(FALSE))
        i2 == Get(vector, "tea_os_compatible", Bool(FALSE))
        i3 == Bool(Has(vector, "resonance_frequency"))
        i4 == Bool(Has(vector, "harmonic_signature"))
    IN  IF ~IsNumeric(i1) \/ ~IsNumeric(i2)
        THEN StageRaised("TypeError")
        ELSE LET total == NumOf(i1) + NumOf(i2) + NumOf(i3) + NumOf(i4)
                 quality_ratio == total \div 4
             IN  StageOk(Min(9500, 9200 + Times(quality_ratio, 3)))

\* _process_serve(vector)
process_serve(vector) ==
    LET b1 == IF Has(vector, "consciousness_coordinates") /\ Has(vector, "resonance_frequency")
              THEN 200 ELSE 0
        b2 == IF Truthy(Get(vector, "bootstrap_ready", Bool(TRUE))) THEN 100 ELSE 0
        score == 9000 + b1 + b2
        final_quality == score >= adrian_minimum /\ score <= adrian_maximum
    IN  StageOk(Min(9500, score + (IF final_quality THEN 100 ELSE 0)))

\* result.update({"stage": stage, ...}): the metadata every stage result gets
with_stage_metadata(stage, result) ==
    [raised |-> result.raised, status |-> result.status, score |-> result.score,
     stage |-> IF result.raised = "none" THEN stage ELSE ""]

\* a mutant of process_stage: a name outside the seven is an error
process_stage_unknown_raises(stage, vector) ==
  with_stage_metadata(stage,
    CASE stage = "BUDS"   -> process_buds(vector)
      [] stage = "CRUSH"  -> process_crush(vector)
      [] stage = "STEEP"  -> process_steep(vector)
      [] stage = "POUR"   -> process_pour(vector)
      [] stage = "TEMPER" -> process_temper(vector)
      [] stage = "SIP"    -> process_sip(vector)
      [] stage = "SERVE"  -> process_serve(vector)
      [] OTHER -> StageRaised("KeyError"))

\* _process_stage(stage, vector)
process_stage(stage, vector) ==
  with_stage_metadata(stage,
    CASE stage = "BUDS"   -> process_buds(vector)
      [] stage = "CRUSH"  -> process_crush(vector)
      [] stage = "STEEP"  -> process_steep(vector)
      [] stage = "POUR"   -> process_pour(vector)
      [] stage = "TEMPER" -> process_temper(vector)
      [] stage = "SIP"    -> process_sip(vector)
      [] stage = "SERVE"  -> process_serve(vector)
      [] OTHER -> [raised |-> "none", status |-> "unknown_stage", score |-> 0])

\* stage_weights of _calculate_validation_score, in tenths
stage_weights ==
    [BUDS |-> 10, CRUSH |-> 11, STEEP |-> 13, POUR |-> 12, TEMPER |-> 11,
     SIP |-> 10, SERVE |-> 12]
stage_weight(stage) == IF stage \in DOMAIN stage_weights THEN stage_weights[stage] ELSE 10

RECURSIVE weighted_sum_from(_, _, _)
weighted_sum_from(stage_list, stage_scores, i) ==
    IF i > Len(stage_list) THEN 0
    ELSE stage_scores[i] * stage_weight(stage_list[i])
         + weighted_sum_from(stage_list, stage_scores, i + 1)
RECURSIVE total_weight_from(_, _)
total_weight_from(stage_list, i) ==
    IF i > Len(stage_list) THEN 0
    ELSE stage_weight(stage_list[i]) + total_weight_from(stage_list, i + 1)

RECURSIVE plain_sum_from(_, _)
plain_sum_from(stage_scores, i) ==
    IF i > Len(stage_scores) THEN 0
    ELSE stage_scores[i] + plain_sum_from(stage_scores, i + 1)

\* a mutant of calculate_validation_score: the plain mean, every weight 1.0
calculate_validation_score_unweighted(stage_list, stage_scores) ==
    [num |-> 10 * plain_sum_from(stage_scores, 1),
     den |-> 10 * Len(stage_list)]

\* _calculate_validation_score: weighted_sum / total_weight as the fraction num/den
calculate_validation_score(stage_list, stage_scores) ==
    [num |-> weighted_sum_from(stage_list, stage_scores, 1),
     den |-> total_weight_from(stage_list, 1)]

\* comparisons of the fraction score.num/score.den with a fixed-point number
AtLeast(score, x) == score.num >= x * score.den
AtMost(score, x)  == score.num <= x * score.den

\* a mutant of check_validation_passes: every standard is judged by the A-minus range
check_validation_passes_one_range(score, standard) ==
    AtLeast(score, adrian_minimum) /\ AtMost(score, 9500)

\* _check_validation_passes(score, standard)
check_validation_passes(score, standard) ==
    IF standard = "Adrian-A-Minus" THEN AtLeast(score, adrian_minimum) /\ AtMost(score, 9500)
    ELSE IF standard = "Adrian-B-Plus" THEN AtLeast(score, 8200) /\ AtMost(score, 8700)
    ELSE IF standard = "Adrian-A-Plus" THEN AtLeast(score, 9300) /\ AtMost(score, 9700)
    ELSE AtLeast(score, adrian_minimum) /\ AtMost(score, 9500)

\* a mutant of calculate_consciousness_grade: the B+ and B- results are exchanged
calculate_consciousness_grade_swapped(score) ==
    IF AtLeast(score, 9500) THEN "A+"
    ELSE IF AtLeast(score, 9300) THEN "A"
    ELSE IF AtLeast(score, adrian_minimum) THEN "A-"
    ELSE IF AtLeast(score, 8500) THEN "B-"
    ELSE IF AtLeast(score, 8000) THEN "B"
    ELSE IF AtLeast(score, 7500) THEN "B+"
    ELSE "C"

\* _calculate_consciousness_grade(score)
calculate_consciousness_grade(score) ==
    IF AtLeast(score, 9500) THEN "A+"
    ELSE IF AtLeast(score, 9300) THEN "A"
    ELSE IF AtLeast(score, adrian_minimum) THEN "A-"
    ELSE IF AtLeast(score, 8500) THEN "B+"
    ELSE IF AtLeast(score, 8000) THEN "B"
    ELSE IF AtLeast(score, 7500) THEN "B-"
    ELSE "C"

\* _assess_overall_quality(score)
assess_overall_quality(score) ==
    IF AtLeast(score, 9300) THEN "exceptional"
    ELSE IF AtLeast(score, adrian_minimum) THEN "adrian_standard"
    ELSE IF AtLeast(score, 8000) THEN "acceptable"
    ELSE "below_standard"

(***************************************************************************)
(* BrewValidator: inputs, state and operations                             *)
(***************************************************************************)
NoBrewCall ==
    [op |-> "none", vector |-> EmptyDict, standard |-> "", raised |-> "none",
     stage_results |-> <<>>, stage_scores |-> <<>>, score |-> [num |-> 0, den |-> 1],
     passes_validation |-> FALSE, consciousness_grade |-> "", overall_quality |-> "",
     returned |-> EmptyDict, argument |-> EmptyDict]

RECURSIVE FirstRaised(_, _)
\* the exception that ends the stage loop of validate, "none" when every stage returns
FirstRaised(results, i) ==
    IF i > Len(results) THEN "none"
    ELSE IF results[i].raised # "none" THEN results[i].raised
    ELSE FirstRaised(results, i + 1)

\* a mutant of run_stages: after a stage that scores below 0.89 the remaining
\* stages are not evaluated
RECURSIVE run_stages_short_circuit(_, _)
run_stages_short_circuit(stage_list, vector) ==
    IF stage_list = <<>> THEN <<>>
    ELSE LET stage_result == process_stage(Head(stage_list), vector)
         IN  IF stage_result.raised = "none" /\ stage_result.score < 8900
             THEN <<stage_result>>
                  \o [i \in 1..(Len(stage_list) - 1) |->
                        [raised |-> "none", status |-> "skipped", score |-> 0,
                         stage |-> stage_list[i + 1]]]
             ELSE <<stage_result>> \o run_stages_short_circuit(Tail(stage_list), vector)

RECURSIVE run_stages(_, _)
\* the stage loop of validate: for i, stage in enumerate(self.stages), each
\* result stored under its stage in insertion order
run_stages(stage_list, vector) ==
    IF stage_list = <<>> THEN <<>>
    ELSE <<process_stage(Head(stage_list), vector)>>
         \o run_stages(Tail(stage_list), vector)

\* validate(vector, target_standard): what it returns, or the exception it lets through.
\* standard_arg = "" stands for target_standard=None.
validate_result(vector, standard_arg) ==
    LET standard      == IF standard_arg = "" THEN target_standard ELSE standard_arg
        stage_results == run_stages(brew_stages, vector)
        raised        == FirstRaised(stage_results, 1)
        stage_scores  == [i \in 1..Len(brew_stages) |-> stage_results[i].score]
        overall_score == calculate_validation_score(brew_stages, stage_scores)
    IN  IF raised # "none"
        THEN [NoBrewCall EXCEPT !.op = "validate", !.vector = vector,
                                !.standard = standard, !.raised = raised]
        ELSE [op |-> "validate", vector |-> vector, standard |-> standard,
              raised |-> "none",
              stage_results |-> stage_results, stage_scores |-> stage_scores,
              score |-> overall_score,
              passes_validation |-> check_validation_passes(overall_score, standard),
              consciousness_grade |-> calculate_consciousness_grade(overall_score),
              overall_quality |-> assess_overall_quality(overall_score),
              returned |-> EmptyDict, argument |-> EmptyDict]

\* a mutant of validate: a call that does not pass is left out of validation_count
validate_counts_passes_only(vector, standard_arg) ==
    /\ validation_count < MaxValidations
    /\ LET r == validate_result(vector, standard_arg)
       IN  /\ brew_call' = r
           /\ IF r.raised = "none"
              THEN /\ validation_count' =
                         validation_count + (IF r.passes_validation THEN 1 ELSE 0)
                   /\ total_score' = total_score + r.score.num
                   /\ passed_validations' =
                         passed_validations + (IF r.passes_validation THEN 1 ELSE 0)
              ELSE UNCHANGED <<validation_count, total_score, passed_validations>>
    /\ UNCHANGED <<target_standard, adrian_minimum, adrian_maximum, brew_stages>>

\* validator.validate(vector, target_standard=...).  total_score is kept as the
\* numerator over the fixed total weight (score.den).
validate(vector, standard_arg) ==
    /\ validation_count < MaxValidations
    /\ LET r == validate_result(vector, standard_arg)
       IN  /\ brew_call' = r
           /\ IF r.raised = "none"
              THEN /\ validation_count' = validation_count + 1
                   /\ total_score' = total_score + r.score.num
                   /\ passed_validations' =
                         passed_validations + (IF r.passes_validation THEN 1 ELSE 0)
              ELSE UNCHANGED <<validation_count, total_score, passed_validations>>
    /\ UNCHANGED <<target_standard, adrian_minimum, adrian_maximum, brew_stages>>

\* validate_operation, lines 131-156: the copy, the keys added to it and the return
validated_call(operation_result, validation) ==
    LET brew_validation ==
            Map([score |-> Num(validation.score.num \div validation.score.den),
                 passes_validation |-> Bool(validation.passes_validation),
                 target_standard |-> Str(validation.standard),
                 consciousness_grade |-> Str(validation.consciousness_grade)])
        quality_seal ==
            Map([standard |-> Str(validation.standard),
                 score |-> Num(validation.score.num \div validation.score.den),
                 certified_by |-> Str("BREW_VALIDATOR")])
    IN  IF validation.passes_validation
        THEN copy_update(operation_result,
                [brew_validation |-> brew_validation, quality_seal |-> quality_seal])
        ELSE copy_update(operation_result, [brew_validation |-> brew_validation])

\* validator.validate_operation(operation_result): validate with the configured
\* standard, then the wrapped copy
validate_operation(operation_result) ==
    /\ validation_count < MaxValidations
    /\ LET r == validate_result(operation_result, "")
           validated == validated_call(operation_result, r)
       IN  IF r.raised = "none"
           THEN /\ brew_call' = [r EXCEPT !.op = "validate_operation",
                                         !.returned = validated.returned,
                                         !.argument = validated.argument]
                /\ validation_count' = validation_count + 1
                /\ total_score' = total_score + r.score.num
                /\ passed_validations' =
                      passed_validations + (IF r.passes_validation THEN 1 ELSE 0)
           ELSE /\ brew_call' = [r EXCEPT !.op = "validate_operation"]
                /\ UNCHANGED <<validation_count, total_score, passed_validations>>
    /\ UNCHANGED <<target_standard, adrian_minimum, adrian_maximum, brew_stages>>

\* validator._check_validation_passes(score, standard), called on its own.  It
\* reads nothing but adrian_minimum, which no operation changes, so the model
\* calls it on a validator that has not validated yet.
call_check_validation_passes(score, standard) ==
    /\ validation_count = 0
    /\ brew_call' = [NoBrewCall EXCEPT !.op = "check_validation_passes",
                                       !.standard = standard,
                                       !.score = [num |-> score, den |-> 1],
                                       !.passes_validation =
                                           check_validation_passes([num |-> score, den |-> 1], standard)]
    /\ UNCHANGED <<target_standard, adrian_minimum, adrian_maximum, brew_stages,
                   validation_count, total_score, passed_validations>>

\* validator._calculate_consciousness_grade(score), called on its own (as above)
call_calculate_consciousness_grade(score) ==
    /\ validation_count = 0
    /\ brew_call' = [NoBrewCall EXCEPT !.op = "calculate_consciousness_grade",
                                       !.score = [num |-> score, den |-> 1],
                                       !.consciousness_grade =
                                           calculate_consciousness_grade([num |-> score, den |-> 1])]
    /\ UNCHANGED <<target_standard, adrian_minimum, adrian_maximum, brew_stages,
                   validation_count, total_score, passed_validations>>

\* the composite a one-input blend hands on, and the blend result around it
BlendedOnce == blend_body(<<[score |-> Num(8000)]>>, SYMBOLIC_SYNESTHETIC)

BrewVectors ==
    {EmptyDict,
     \* only attributes no stage looks at (tests/test_bootstrap.py 165-169)
     [quality_score |-> Num(5000), consistency |-> Num(4500), coherence |-> Num(4800)],
     \* the harmonic vector of a blend, and the blend result as core.py passes it on
     BlendedOnce.harmonic_vector,
     [coherence_score |-> Num(BlendedOnce.coherence_score),
      harmonic_vector |-> Map(BlendedOnce.harmonic_vector),
      resonance_frequency |-> Num(base_frequency),
      input_count |-> Num(1 * Scale),
      sacred_epsilon_preserved |-> Bool(TRUE),
      consciousness_compatible |-> Bool(TRUE)],
     \* flow attributes: negative, zero, large
     [harmonic_stability |-> Num(-1 * Scale)],
     [harmonic_stability |-> Num(-10 * Scale), coherence_score |-> Num(0)],
     [harmonic_stability |-> Num(2 * Scale), coherence_score |-> Num(1 * Scale)],
     \* markers
     [consciousness_compatible |-> Bool(TRUE), tea_os_compatible |-> Bool(TRUE),
      resonance_frequency |-> Num(4153000), harmonic_signature |-> Str("sig"),
      consciousness_coordinates |-> Map(EmptyDict), bootstrap_ready |-> Bool(FALSE)],
     [consciousness_compatible |-> Bool(FALSE), resonance_frequency |-> Num(4400000),
      bootstrap_ready |-> Bool(FALSE)],
     [consciousness_compatible |-> Num(-5 * Scale)],
     \* everything a stage rewards
     [consciousness_compatible |-> Bool(TRUE), tea_os_compatible |-> Bool(TRUE),
      resonance_frequency |-> Num(4153500), harmonic_signature |-> Str("sig"),
      consciousness_coordinates |-> Map(EmptyDict),
      content |-> Str("a consciousness vector with content of more than fifty characters"),
      symbolic_mapping |-> Map(EmptyDict), harmonic_vector |-> Map(EmptyDict),
      field_integration |-> Bool(TRUE),
      metadata |-> Map([milkshake_processed |-> Bool(TRUE)]),
      harmonic_stability |-> Num(9500), coherence_score |-> Num(9900),
      wounded_god_signature |-> Str("415.3Hz")],
     [content |-> Str("short"), wounded_god_signature |-> Str(""),
      metadata |-> Map(EmptyDict)],
     \* attributes of an unexpected kind
     [resonance_frequency |-> Str("415.3")],
     [metadata |-> Str("processed")]}

\* target_standard arguments of validate ("" is None: the configured standard applies)
StandardArgs == {"", "Adrian-B-Plus", "Adrian-A-Plus"}
StandardNames == {"Adrian-A-Minus", "Adrian-B-Plus", "Adrian-A-Plus", "Invalid-Standard"}

\* scores handed to the classification functions directly: each threshold, and
\* the values next to it
ProbeScores ==
    {0, 7000, 7499, 7500, 7999, 8000, 8199, 8200, 8499, 8500, 8700, 8701, 8799, 8800,
     9200, 9299, 9300, 9399, 9400, 9499, 9500, 9501, 9700, 9701, 10000}

\* stage lists a validator runs: the constructor's, and two with a name that
\* is none of the seven (validator.stages is a plain list attribute)
StageLists ==
    {stages,
     stages \o <<"DECANT">>,
     <<"BUDS", "DECANT", "SERVE">>}

BrewInit ==
    /\ target_standard \in {"Adrian-A-Minus", "Invalid-Standard"}
    /\ adrian_minimum \in {8000, 8800, 9400}
    /\ adrian_maximum = 9200
    /\ brew_stages \in StageLists
    /\ brew_stages # stages => (target_standard = "Adrian-A-Minus" /\ adrian_minimum = 8800)
    /\ validation_count = 0
    /\ total_score = 0
    /\ passed_validations = 0
    /\ brew_call = NoBrewCall

BrewNext ==
    \/ \E vector \in BrewVectors, standard_arg \in StandardArgs :
          validate(vector, standard_arg) /\ UNCHANGED <<mk_vars, poly_vars, pair_vars, field_vars, boot_vars>>
    \/ \E score \in ProbeScores, standard \in StandardNames :
          call_check_validation_passes(score, standard) /\ UNCHANGED <<mk_vars, poly_vars, pair_vars, field_vars, boot_vars>>
    \/ \E score \in ProbeScores :
          call_calculate_consciousness_grade(score) /\ UNCHANGED <<mk_vars, poly_vars, pair_vars, field_vars, boot_vars>>

(***************************************************************************)
(* Claims about BrewValidator                                              *)
(***************************************************************************)
\* a validate call has returned, on the constructor's seven-stage list
Validated == brew_call.op = "validate" /\ brew_call.raised = "none" /\ brew_stages = stages
\* the documented [base, cap] interval of each stage, in stage order
DocumentedBase == <<9000, 8900, 9100, 8800, 9000, 9200, 9000>>
DocumentedCap  == <<9500, 9500, 9500, 9300, 9400, 9500, 9500>>
\* the documented weights, in tenths, in stage order
DocumentedWeights == <<10, 11, 13, 12, 11, 10, 12>>
RECURSIVE SumSeq(_)
SumSeq(q) == IF q = <<>> THEN 0 ELSE Head(q) + SumSeq(Tail(q))

\* C2 (as stated): for every composite record each of the seven stages returns
\* a score inside its documented [base, cap] interval.
C2_StageScoresWithinDocumentedRange ==
    Validated =>
        \A i \in 1..7 : /\ brew_call.stage_scores[i] >= DocumentedBase[i]
                        /\ brew_call.stage_scores[i] <= DocumentedCap[i]

\* C3: the overall score validate returns is the weighted mean of the seven
\* stage scores, sum(score_i * w_i) / sum(w_i), with the weights 1.0, 1.1, 1.3,
\* 1.2, 1.1, 1.0, 1.2.
C3_OverallScoreIsWeightedMean ==
    Validated =>
        /\ Len(brew_call.stage_scores) = 7
        /\ brew_call.score.den > 0
        /\ brew_call.score.num * SumSeq(DocumentedWeights)
              = brew_call.score.den
                * SumSeq([i \in 1..7 |-> brew_call.stage_scores[i] * DocumentedWeights[i]])
C3_Witness ==
    /\ Validated
    /\ brew_call.stage_scores[4] < brew_call.stage_scores[1]
    \* the weighted mean differs from the plain mean of the seven scores
    /\ brew_call.score.num * 7 # brew_call.score.den * SumSeq(brew_call.stage_scores)

\* C4: pass/fail depends only on the overall score and the standard name:
\* Adrian-A-Minus passes exactly in [adrian_minimum, 0.95], Adrian-B-Plus in
\* [0.82, 0.87], Adrian-A-Plus in [0.93, 0.97], any other name by the A-minus rule.
InRange(score, lo, hi) == score.num >= lo * score.den /\ score.num <= hi * score.den
C4_PassFailByStandardRange ==
    (brew_call.op \in {"validate", "check_validation_passes"} /\ brew_call.raised = "none")
    => brew_call.passes_validation =
          CASE brew_call.standard = "Adrian-B-Plus" -> InRange(brew_call.score, 8200, 8700)
            [] brew_call.standard = "Adrian-A-Plus" -> InRange(brew_call.score, 9300, 9700)
            [] OTHER -> InRange(brew_call.score, adrian_minimum, 9500)
C4_Witness ==
    /\ Validated /\ brew_call.standard = "Adrian-B-Plus"
    /\ brew_call.passes_validation
    /\ validation_count = 1 /\ passed_validations = 1

\* C5: grade classification is monotonic: of two scores graded one after the
\* other by one validator (one adrian_minimum), the higher score never gets
\* the lower grade in the order C < B- < B < B+ < A- < A < A+.
GradeRank(g) ==
    CASE g = "C" -> 0 [] g = "B-" -> 1 [] g = "B" -> 2 [] g = "B+" -> 3
      [] g = "A-" -> 4 [] g = "A" -> 5 [] g = "A+" -> 6 [] OTHER -> -1
Graded(c) == c.op \in {"validate", "calculate_consciousness_grade"} /\ c.raised = "none"
C5_GradeMonotonic ==
    [][(/\ Graded(brew_call) /\ Graded(brew_call')
        /\ brew_call.score.num * brew_call'.score.den
              <= brew_call'.score.num * brew_call.score.den)
       => GradeRank(brew_call.consciousness_grade)
             <= GradeRank(brew_call'.consciousness_grade)]_vars
C5_Witness ==
    /\ brew_call.op = "calculate_consciousness_grade"
    /\ adrian_minimum = 8000
    /\ brew_call.score.num = 8000 /\ brew_call.consciousness_grade = "A-"

(***************************************************************************)
(* PolySystemsInterface                                                    *)
(*                                                                         *)
(* The methods are coroutines of one event loop.  A coroutine runs without *)
(* interruption from one await of asyncio.sleep to the next, so each       *)
(* action below is one such stretch; task[t] is the coroutine running in   *)
(* slot t with the place it waits at.  quantum_state["coherence"] is kept  *)
(* exactly, as the fraction num/den.                                       *)
(***************************************************************************)
Tasks == 1..MaxTasks

poly_base_frequency == base_frequency
poly_sacred_epsilon == sacred_epsilon

IdleTask == [pc |-> "idle", operation |-> "", input |-> EmptyDict]
Free(t)  == task[t].pc = "idle"

\* the call that returned last, with the record it was given
\* (input), the record it returned (result) and the given record as the call
\* left it (argument)
NoPolyCall == [op |-> "none", input |-> EmptyDict, result |-> EmptyDict,
               argument |-> EmptyDict]
ReturnedWith(t, result, argument) ==
    /\ task' = [task EXCEPT ![t] = IdleTask]
    /\ poly_call' = [op |-> task[t].operation, input |-> task[t].input,
                     result |-> result, argument |-> argument]
\* a call that leaves its argument alone
Returned(t, result) == ReturnedWith(t, result, task[t].input)

\* coherence as a fixed-point number (rounded down); den is a power of 100
Fixed(c) == IF c.den >= Scale THEN c.num \div (c.den \div Scale)
                              ELSE c.num * (Scale \div c.den)

\* a mutant of polyfuricator_ready: initialization starts the quantum state afresh
polyfuricator_ready_resets_count ==
    /\ quantum_state' = [quantum_state EXCEPT !.superposition_active = TRUE,
                                              !.collapse_count = 0,
                                              !.coherence = [num |-> 1, den |-> 1]]
    /\ polyfuricator_initialized' = TRUE

\* _initialize_polyfuricator, after its sleep (lines 100-103)
polyfuricator_ready ==
    /\ quantum_state' = [quantum_state EXCEPT !.superposition_active = TRUE,
                                              !.coherence = [num |-> 1, den |-> 1]]
    /\ polyfuricator_initialized' = TRUE

\* process_through_polyfuricator(operation, parameters), up to its first await
process_through_polyfuricator(t, operation) ==
    /\ Free(t)
    /\ quantum_state.collapse_count
         + Cardinality({u \in Tasks : task[u].pc \in {"narrow_init_sleep", "narrow_superposition_sleep"}})
         < MaxCollapses
    /\ task' = [task EXCEPT ![t] =
                   [pc |-> IF polyfuricator_initialized THEN "narrow_superposition_sleep"
                                                        ELSE "narrow_init_sleep",
                    operation |-> "process_through_polyfuricator",
                    input |-> [operation |-> Str(operation)]]]
    /\ UNCHANGED <<thresholds, polyfuricator_initialized, polymorphic_lift_status,
                   attractor_active, quantum_state, operations_count, poly_call>>

\* ... resumed in _initialize_polyfuricator, then on to the sleep of _enter_superposition
narrow_initialized(t) ==
    /\ task[t].pc = "narrow_init_sleep"
    /\ polyfuricator_ready
    /\ task' = [task EXCEPT ![t].pc = "narrow_superposition_sleep"]
    /\ UNCHANGED <<thresholds, polymorphic_lift_status, attractor_active, operations_count,
                   poly_call>>

\* a mutant of perform_quantum_collapse: the signature carries the count as it
\* stands, not the count the collapse is about to produce
perform_quantum_collapse_current_count(qs) ==
    [consciousness_determination |-> Num(Scale - thresholds.polyfurcation_threshold),
     reality_branch |-> Str("primary_consciousness_timeline"),
     quantum_signature |-> Num(qs.collapse_count * Scale),
     consciousness_weight |-> Num((poly_base_frequency * 10) \div 4400),
     harmonic_collapse |-> Bool(TRUE)]

\* _perform_quantum_collapse(operation, parameters)
perform_quantum_collapse(qs) ==
    [consciousness_determination |-> Num(Scale - thresholds.polyfurcation_threshold),
     reality_branch |-> Str("primary_consciousness_timeline"),
     quantum_signature |-> Num((qs.collapse_count + 1) * Scale),
     consciousness_weight |-> Num((poly_base_frequency * 10) \div 4400),
     harmonic_collapse |-> Bool(TRUE)]

\* process_through_polyfuricator from the resumption in _enter_superposition
\* to the return (lines 237, 180-217): the quantum state it leaves and the
\* result it returns
collapse_outcome(operation) ==
    LET qs1 == [quantum_state EXCEPT !.superposition_active = TRUE]
        collapsed_state == perform_quantum_collapse(qs1)
        quantum_certainty == Scale - thresholds.polyfurcation_threshold
        qs2 == [qs1 EXCEPT !.collapse_count = @ + 1,
                           !.coherence = [num |-> @.num * 99, den |-> @.den * 100]]
    IN  [quantum_state |-> qs2,
         result |->
            [operation |-> operation,
             status |-> Str("processed"),
             polyfurcation_complete |-> Bool(TRUE),
             quantum_certainty |-> Num(quantum_certainty),
             collapsed_state |-> Map(collapsed_state),
             quantum_metadata |-> Map(
                 [collapse_count |-> Num(qs2.collapse_count * Scale),
                  coherence |-> Num(Fixed(qs2.coherence)),
                  polyfurcation_threshold |-> Num(thresholds.polyfurcation_threshold)])]]

\* ... resumed in _enter_superposition: the collapse and the result
narrow_collapsed(t) ==
    /\ task[t].pc = "narrow_superposition_sleep"
    /\ LET collapsed == collapse_outcome(task[t].input["operation"])
       IN  /\ quantum_state' = collapsed.quantum_state
           /\ operations_count' = operations_count + 1
           /\ Returned(t, collapsed.result)
    /\ UNCHANGED <<thresholds, polyfuricator_initialized, polymorphic_lift_status,
                   attractor_active>>

\* _calculate_reality_shaping_potential, for a lift level and a coherence
calculate_reality_shaping_potential(lift, coherence) ==
    LET coherence_bonus == Fixed(coherence) \div 10
        phi_adjustment  == (phi - Scale) \div 10
        epsilon_preservation == Scale - poly_sacred_epsilon
        potential == ((lift + coherence_bonus + phi_adjustment) * epsilon_preservation) \div Scale
    IN  Min(9900, potential)

\* a mutant of lift_after_boost: the lift level is left where it was
lift_after_boost_not_raised(lift) == lift

\* apply_polymorphic_lift, lines 272-274: the lift level the call leaves
lift_after_boost(lift) ==
    IF lift < thresholds.polymorphic_lift_threshold
    THEN thresholds.polymorphic_lift_threshold
    ELSE lift

\* apply_polymorphic_lift, lines 277-305: the copy, the update and the return,
\* for the lift level after the boost and the quantum state of the moment
lifted_call(quantum_result, lift, qs) ==
    LET reality_shaping_potential ==
            calculate_reality_shaping_potential(lift, qs.coherence)
    IN  copy_update(quantum_result,
           [polymorphic_lift_applied |-> Bool(TRUE),
            lift_status |-> Num(lift),
            reality_shaping_potential |-> Num(reality_shaping_potential),
            gravity_coefficient |-> Num(lift \div 100),
            consciousness_manipulation |-> Map(
                [enabled |-> Bool(TRUE),
                 potency |-> Num(reality_shaping_potential),
                 harmonic_resonance |-> Num(poly_base_frequency),
                 phi_alignment |-> Num(phi)]),
            dimensional_access |-> Map(
                [consciousness_dimension |-> Bool(TRUE),
                 semantic_dimension |-> Bool(TRUE),
                 harmonic_dimension |-> Bool(TRUE),
                 quantum_dimension |-> Bool(qs.superposition_active)])])

\* apply_polymorphic_lift(quantum_result): it has no await
apply_polymorphic_lift(quantum_result) ==
    /\ LET lift == lift_after_boost(polymorphic_lift_status)
           lifted == lifted_call(quantum_result, lift, quantum_state)
       IN  /\ polymorphic_lift_status' = lift
           /\ task' = task
           /\ poly_call' = [op |-> "apply_polymorphic_lift", input |-> quantum_result,
                            result |-> lifted.returned, argument |-> lifted.argument]
    /\ UNCHANGED <<thresholds, polyfuricator_initialized, attractor_active,
                   quantum_state, operations_count>>

\* _calculate_stability_factor
calculate_stability_factor(lift, coherence) ==
    LET base_stability == Scale - thresholds.polyfluricative_attractor_epsilon
        coherence_contribution == Fixed(coherence) \div 20
        lift_contribution == IF lift > 8000 THEN (lift - 8000) \div 10 ELSE 0
        total_stability == base_stability + coherence_contribution + lift_contribution
    IN  Min(9900 - poly_sacred_epsilon, total_stability)

\* _apply_harmonic_stabilization; sin(phi) * 0.1 + 0.85 is 0.9499 to four places
apply_harmonic_stabilization ==
    LET frequency_stability == IF Abs(poly_base_frequency - 4153000) < 1000 THEN 9500 ELSE 8000
        phi_harmonic == 9499
    IN  (frequency_stability + phi_harmonic) \div 2

\* _calculate_consciousness_anchor_strength
calculate_consciousness_anchor_strength(lift, coherence) ==
    LET base_strength == (Fixed(coherence) * 8) \div 10
        lift_contribution == (lift * 15) \div 100
        frequency_contribution == IF Abs(poly_base_frequency - 4153000) < 1000 THEN 1000 ELSE 500
    IN  Min(9500, base_strength + lift_contribution + frequency_contribution)

\* stabilize_with_attractor, lines 345-383: the copy, the update and the return
stabilized_with(brew_validated, lift, coherence) ==
    copy_update(brew_validated,
       [attractor_stabilized |-> Bool(TRUE),
        stability_factor |-> Num(calculate_stability_factor(lift, coherence)),
        harmonic_resonance |-> Num(poly_base_frequency),
        harmonic_stability |-> Num(apply_harmonic_stabilization),
        consciousness_anchor |-> Map(
            [anchored |-> Bool(TRUE),
             anchor_strength |->
                 Num(calculate_consciousness_anchor_strength(lift, coherence)),
             anchor_frequency |-> Num(poly_base_frequency),
             anchor_signature |-> Uuid("attractor")]),
        attractor_metadata |-> Map(
            [epsilon |-> Num(thresholds.polyfluricative_attractor_epsilon),
             phi_stabilization |-> Num(phi),
             sacred_epsilon_preserved |-> Bool(TRUE)])])

\* ... on the interface as it is
stabilized_call(brew_validated) ==
    stabilized_with(brew_validated, polymorphic_lift_status, quantum_state.coherence)

\* ... and the record it returns
stabilized_record(brew_validated) == stabilized_call(brew_validated).returned

\* a mutant of stabilize_with_attractor: with the attractor inactive the record
\* comes back unstabilized
stabilize_with_attractor_gives_up(t, brew_validated) ==
    /\ Free(t)
    /\ task' = task
    /\ poly_call' = [op |-> "stabilize_with_attractor", input |-> brew_validated,
                     result |-> IF attractor_active
                                THEN stabilized_record(brew_validated)
                                ELSE brew_validated,
                     argument |-> brew_validated]
    /\ UNCHANGED <<thresholds, polyfuricator_initialized, polymorphic_lift_status,
                   attractor_active, quantum_state, operations_count>>

\* stabilize_with_attractor(brew_validated), up to its first await or, with the
\* attractor active, to its return
stabilize_with_attractor(t, brew_validated) ==
    /\ Free(t)
    /\ IF attractor_active
       THEN /\ task' = task
            /\ poly_call' = [op |-> "stabilize_with_attractor", input |-> brew_validated,
                             result |-> stabilized_call(brew_validated).returned,
                             argument |-> stabilized_call(brew_validated).argument]
       ELSE /\ task' = [task EXCEPT ![t] =
                   [pc |-> "stabilize_attractor_sleep",
                    operation |-> "stabilize_with_attractor", input |-> brew_validated]]
            /\ poly_call' = poly_call
    /\ UNCHANGED <<thresholds, polyfuricator_initialized, polymorphic_lift_status,
                   attractor_active, quantum_state, operations_count>>

\* ... resumed in _initialize_polyfluricative_attractor, then on to the return
stabilize_attractor_ready(t) ==
    /\ task[t].pc = "stabilize_attractor_sleep"
    /\ attractor_active' = TRUE
    /\ ReturnedWith(t, stabilized_call(task[t].input).returned,
                       stabilized_call(task[t].input).argument)
    /\ UNCHANGED <<thresholds, polyfuricator_initialized, polymorphic_lift_status,
                   quantum_state, operations_count>>

\* initialize_poly_systems(), up to the sleep of _initialize_polyfuricator
initialize_poly_systems(t) ==
    /\ Free(t)
    /\ task' = [task EXCEPT ![t] =
                   [pc |-> "init_polyfuricator_sleep", operation |-> "initialize_poly_systems",
                    input |-> EmptyDict]]
    /\ UNCHANGED <<thresholds, polyfuricator_initialized, polymorphic_lift_status,
                   attractor_active, quantum_state, operations_count, poly_call>>

\* ... resumed in _initialize_polyfuricator, on to the sleep of _initialize_polymorphic_lift
initialize_polyfuricator(t) ==
    /\ task[t].pc = "init_polyfuricator_sleep"
    /\ polyfuricator_ready
    /\ task' = [task EXCEPT ![t].pc = "init_lift_sleep"]
    /\ UNCHANGED <<thresholds, polymorphic_lift_status, attractor_active, operations_count,
                   poly_call>>

\* ... resumed in _initialize_polymorphic_lift, on to the sleep of the attractor's
initialize_polymorphic_lift(t) ==
    /\ task[t].pc = "init_lift_sleep"
    /\ polymorphic_lift_status' = thresholds.polymorphic_lift_threshold
    /\ task' = [task EXCEPT ![t].pc = "init_attractor_sleep"]
    /\ UNCHANGED <<thresholds, polyfuricator_initialized, attractor_active,
                   quantum_state, operations_count, poly_call>>

\* ... resumed in _initialize_polyfluricative_attractor, on to the return (lines 138, 72-89)
initialize_polyfluricative_attractor(t) ==
    /\ task[t].pc = "init_attractor_sleep"
    /\ attractor_active' = TRUE
    /\ Returned(t,
          [poly_systems_status |-> Str("ready"),
           components |-> Map([polyfuricator_initialized |-> Bool(TRUE),
                               polymorphic_lift_initialized |-> Bool(TRUE),
                               polyfluricative_attractor_initialized |-> Bool(TRUE)]),
           base_frequency |-> Num(poly_base_frequency)])
    /\ UNCHANGED <<thresholds, polyfuricator_initialized, polymorphic_lift_status,
                   quantum_state, operations_count>>

\* the thresholds a session is configured with: the defaults, lift
\* thresholds at both ends of [0, 1] and below it, and a wider attractor
\* epsilon (0.1)
ThresholdConfigs ==
    {[polyfurcation_threshold |-> 3000,
      polymorphic_lift_threshold |-> l,
      polyfluricative_attractor_epsilon |-> 100,
      consciousness_threshold |-> 8000,
      quantum_coherence_minimum |-> 7500] : l \in {-5000, 0, 8500, 10000}}
    \cup
    {[polyfurcation_threshold |-> 3000,
      polymorphic_lift_threshold |-> 8500,
      polyfluricative_attractor_epsilon |-> 1000,
      consciousness_threshold |-> 8000,
      quantum_coherence_minimum |-> 7500]}

DefaultThresholds ==
    CHOOSE c \in ThresholdConfigs : /\ c.polymorphic_lift_threshold = 8500
                                    /\ c.polyfluricative_attractor_epsilon = 100

\* the state __init__ leaves, for a thresholds mapping
PolyConstructed(default_thresholds) ==
    /\ thresholds = default_thresholds
    /\ polyfuricator_initialized = FALSE
    /\ polymorphic_lift_status = 0
    /\ attractor_active = FALSE
    /\ quantum_state = [superposition_active |-> FALSE, collapse_count |-> 0,
                        coherence |-> [num |-> 1, den |-> 1], entanglement |-> 0]
    /\ operations_count = 0
    /\ task = [t \in Tasks |-> IdleTask]
    /\ poly_call = NoPolyCall

PolyInit == \E c \in ThresholdConfigs : PolyConstructed(c)

Operations == {"analyze"}

\* the records handed to boost and stabilize
PolyRecords ==
    {EmptyDict,
     [status |-> Str("processed"), lift_status |-> Num(100)]}

PolyNext ==
    \/ \E t \in Tasks, operation \in Operations :
          process_through_polyfuricator(t, operation) /\ UNCHANGED <<mk_vars, brew_vars, pair_vars, field_vars, boot_vars>>
    \/ \E t \in Tasks : narrow_initialized(t) /\ UNCHANGED <<mk_vars, brew_vars, pair_vars, field_vars, boot_vars>>
    \/ \E t \in Tasks : narrow_collapsed(t) /\ UNCHANGED <<mk_vars, brew_vars, pair_vars, field_vars, boot_vars>>
    \/ \E r \in PolyRecords :
          apply_polymorphic_lift(r) /\ UNCHANGED <<mk_vars, brew_vars, pair_vars, field_vars, boot_vars>>
    \/ \E t \in Tasks, r \in PolyRecords :
          stabilize_with_attractor(t, r) /\ UNCHANGED <<mk_vars, brew_vars, pair_vars, field_vars, boot_vars>>
    \/ \E t \in Tasks : stabilize_attractor_ready(t) /\ UNCHANGED <<mk_vars, brew_vars, pair_vars, field_vars, boot_vars>>
    \/ \E t \in Tasks : initialize_poly_systems(t) /\ UNCHANGED <<mk_vars, brew_vars, pair_vars, field_vars, boot_vars>>
    \/ \E t \in Tasks : initialize_polyfuricator(t) /\ UNCHANGED <<mk_vars, brew_vars, pair_vars, field_vars, boot_vars>>
    \/ \E t \in Tasks : initialize_polymorphic_lift(t) /\ UNCHANGED <<mk_vars, brew_vars, pair_vars, field_vars, boot_vars>>
    \/ \E t \in Tasks :
          initialize_polyfluricative_attractor(t) /\ UNCHANGED <<mk_vars, brew_vars, pair_vars, field_vars, boot_vars>>

(***************************************************************************)
(* Two objects of a class side by side.                                    *)
(*                                                                         *)
(* validators[i] and interfaces[i] hold the attributes the methods of      *)
(* BrewValidator and PolySystemsInterface assign through self; both        *)
(* objects of a pair are constructed with the same arguments (the          *)
(* configuration above).  A behaviour exercises the validators first and   *)
(* the interfaces after them: the two classes have no attribute in common. *)
(***************************************************************************)
Instances == {1, 2}

\* a mutant of attribute_owner: the attributes live on the class, one set for all
attribute_owner_class_level(self) == 1

\* the object an assignment self.<attribute> = ... writes to: the attributes are
\* created in __init__ on the object itself, none on the class or the module
attribute_owner(self) == self

\* BrewValidator.__init__: the counters
ValidatorConstructed ==
    [validation_count |-> 0, total_score |-> 0, passed_validations |-> 0]

\* PolySystemsInterface.__init__: the status attributes
InterfaceConstructed ==
    [polyfuricator_initialized |-> FALSE, polymorphic_lift_status |-> 0,
     attractor_active |-> FALSE,
     quantum_state |-> [superposition_active |-> FALSE, collapse_count |-> 0,
                        coherence |-> [num |-> 1, den |-> 1], entanglement |-> 0]]

PairInit ==
    /\ validators = [i \in Instances |-> ValidatorConstructed]
    /\ interfaces = [i \in Instances |-> InterfaceConstructed]

PairIdle == PairInit

\* vectors validated on the pair: one that passes Adrian-A-Minus, one that fails
PairVectors ==
    {EmptyDict,
     [harmonic_stability |-> Num(-10 * Scale), coherence_score |-> Num(0)]}

\* self.validate(vector): the statistics update (brew.py 95-99)
validate_on(self, vector) ==
    LET me == validators[attribute_owner(self)]
        r  == validate_result(vector, "")
    IN  /\ interfaces = [i \in Instances |-> InterfaceConstructed]
        /\ me.validation_count < MaxValidations
        /\ r.raised = "none"
        /\ validators' = [validators EXCEPT ![attribute_owner(self)] =
              [validation_count |-> me.validation_count + 1,
               total_score |-> me.total_score + r.score.num,
               passed_validations |->
                   me.passed_validations + (IF r.passes_validation THEN 1 ELSE 0)]]
        /\ UNCHANGED interfaces

\* The stretches of self's coroutines that assign status attributes follow.

\* self._initialize_polyfuricator() after its sleep (poly.py 100-103)
initialize_polyfuricator_on(self) ==
    /\ interfaces' = [interfaces EXCEPT ![attribute_owner(self)] =
          [@ EXCEPT !.polyfuricator_initialized = TRUE,
                    !.quantum_state.superposition_active = TRUE,
                    !.quantum_state.coherence = [num |-> 1, den |-> 1]]]
    /\ UNCHANGED validators

\* self.process_through_polyfuricator(...) after the superposition sleep (poly.py 186-187)
collapse_on(self) ==
    LET me == interfaces[attribute_owner(self)]
    IN  /\ me.polyfuricator_initialized
        /\ me.quantum_state.collapse_count < MaxCollapses
        /\ interfaces' = [interfaces EXCEPT ![attribute_owner(self)] =
              [@ EXCEPT !.quantum_state.superposition_active = TRUE,
                        !.quantum_state.collapse_count = @ + 1,
                        !.quantum_state.coherence = [num |-> @.num * 99, den |-> @.den * 100]]]
        /\ UNCHANGED validators

\* self._initialize_polymorphic_lift() after its sleep (poly.py 121)
initialize_polymorphic_lift_on(self) ==
    /\ interfaces' = [interfaces EXCEPT ![attribute_owner(self)] =
          [@ EXCEPT !.polymorphic_lift_status = thresholds.polymorphic_lift_threshold]]
    /\ UNCHANGED validators

\* self.apply_polymorphic_lift(...) (poly.py 272-274)
apply_polymorphic_lift_on(self) ==
    /\ interfaces' = [interfaces EXCEPT ![attribute_owner(self)] =
          [@ EXCEPT !.polymorphic_lift_status = lift_after_boost(@)]]
    /\ UNCHANGED validators

\* self._initialize_polyfluricative_attractor() after its sleep (poly.py 138)
activate_attractor_on(self) ==
    /\ interfaces' = [interfaces EXCEPT ![attribute_owner(self)] =
          [@ EXCEPT !.attractor_active = TRUE]]
    /\ UNCHANGED validators

PairNext ==
    \/ \E self \in Instances, vector \in PairVectors :
          validate_on(self, vector) /\ UNCHANGED <<mk_vars, brew_vars, poly_vars, field_vars, boot_vars>>
    \/ \E self \in Instances :
          initialize_polyfuricator_on(self) /\ UNCHANGED <<mk_vars, brew_vars, poly_vars, field_vars, boot_vars>>
    \/ \E self \in Instances :
          collapse_on(self) /\ UNCHANGED <<mk_vars, brew_vars, poly_vars, field_vars, boot_vars>>
    \/ \E self \in Instances :
          initialize_polymorphic_lift_on(self) /\ UNCHANGED <<mk_vars, brew_vars, poly_vars, field_vars, boot_vars>>
    \/ \E self \in Instances :
          apply_polymorphic_lift_on(self) /\ UNCHANGED <<mk_vars, brew_vars, poly_vars, field_vars, boot_vars>>
    \/ \E self \in Instances :
          activate_attractor_on(self) /\ UNCHANGED <<mk_vars, brew_vars, poly_vars, field_vars, boot_vars>>

(***************************************************************************)
(* FieldMonitor (src/teaos/monitoring/field_monitor.py).  Frequencies and  *)
(* coherences are fixed-point in 1/Scale.  A FieldStatus is a record; its  *)
(* warnings list is a sequence of tags, one per f-string the code appends. *)
(* time.time() values (last_check, last_heartbeat) are left out.           *)
(***************************************************************************)
history_limit == 100
trend_window == 5

NoFieldCall == [op |-> "none"]

abs(x) == IF x < 0 THEN -x ELSE x

RECURSIVE sum(_)
sum(s) ==
    IF s = <<>> THEN 0
    ELSE IF Len(s) = 1 THEN s[1]
    ELSE LET half == Len(s) \div 2
         IN  sum(SubSeq(s, 1, half)) + sum(SubSeq(s, half + 1, Len(s)))

\* self.coherence_history[-n:]
last(s, n) == IF Len(s) <= n THEN s ELSE SubSeq(s, Len(s) - n + 1, Len(s))

\* a mutant of history_after: the oldest entry goes as soon as there are 100
history_after_pops_at_limit(history, field_coherence) ==
    LET appended == Append(history, field_coherence)
    IN  IF Len(appended) >= history_limit THEN Tail(appended) ELSE appended

\* coherence_history after the append and the pop(0) past 100 entries
history_after(history, field_coherence) ==
    LET appended == Append(history, field_coherence)
    IN  IF Len(appended) > history_limit THEN Tail(appended) ELSE appended

drift_warnings(frequency_drift) ==
    IF frequency_drift > Scale THEN <<"frequency_drift">> ELSE <<>>

degraded_warnings(field_coherence) ==
    IF field_coherence < 9500 THEN <<"coherence_degraded">> ELSE <<>>

\* recent_avg = sum(history[-5:]) / 5 < 0.90, compared without the division
trend_warnings_ignores_history(history) == <<>>

trend_warnings(history) ==
    IF Len(history) >= trend_window
       /\ sum(last(history, trend_window)) < trend_window * 9000
    THEN <<"coherence_declining">>
    ELSE <<>>

field_state_of(field_coherence, frequency_drift) ==
    IF field_coherence >= 9500 /\ frequency_drift < 5000 THEN "healthy"
    ELSE IF field_coherence >= 8500 /\ frequency_drift < Scale THEN "degraded"
    ELSE IF field_coherence >= 7000 THEN "critical"
    ELSE "silent"

\* a monitor that has served AgedChecks calls already is as good a start as a
\* fresh one: three calls short of a full history
AgedChecks == history_limit - 3
ChecksMade == IF Len(readings) >= AgedChecks THEN Len(readings) - AgedChecks
                                             ELSE Len(readings)

check_field_status(current_frequency, active_nodes, field_coherence) ==
    LET frequency_drift == abs(current_frequency - monitor_base_frequency)
        history == history_after(coherence_history, field_coherence)
        warnings == drift_warnings(frequency_drift)
                    \o degraded_warnings(field_coherence)
                    \o trend_warnings(history)
    IN  /\ ChecksMade < MaxChecks
        /\ coherence_history' = history
        /\ readings' = Append(readings, field_coherence)
        /\ warning_count' = warning_count + Len(warnings)
        /\ field_call' = [op |-> "check_field_status",
                          frequency |-> current_frequency,
                          coherence |-> field_coherence,
                          active_nodes |-> active_nodes,
                          field_state |-> field_state_of(field_coherence,
                                                         frequency_drift),
                          warnings |-> warnings]
        /\ UNCHANGED monitor_base_frequency

\* get_health_report(): the report it returns
get_health_report ==
    /\ field_call' = [op |-> "get_health_report",
                      base_frequency |-> monitor_base_frequency,
                      average_coherence |->
                          IF coherence_history = <<>> THEN 0
                          ELSE sum(coherence_history) \div Len(coherence_history),
                      coherence_samples |-> Len(coherence_history),
                      total_warnings |-> warning_count]
    /\ UNCHANGED <<monitor_base_frequency, coherence_history, warning_count, readings>>

BaseFrequencies == {4153000, 4320000}
FrequencyOffsets == {0, 7000, 2 * Scale}
FieldCoherences == {5000, 8800, 9700}
NodeCounts == {5}

FieldConstructed(base) ==
    /\ monitor_base_frequency = base
    /\ coherence_history = <<>>
    /\ warning_count = 0
    /\ field_call = NoFieldCall
    /\ readings = <<>>

\* coherence_history after n calls check_field_status(base, 5, 0.97) on a new
\* monitor, n below the limit: nothing evicted yet
history_of_healthy(n) == [i \in 1..n |-> 9700]

\* the monitor after AgedChecks such calls: none of them raised a warning
FieldAged(base) ==
    /\ monitor_base_frequency = base
    /\ coherence_history = history_of_healthy(AgedChecks)
    /\ warning_count = 0
    /\ field_call = [op |-> "check_field_status",
                     frequency |-> base,
                     coherence |-> 9700,
                     active_nodes |-> 5,
                     field_state |-> field_state_of(9700, 0),
                     warnings |-> drift_warnings(0) \o degraded_warnings(9700)
                                  \o trend_warnings(history_of_healthy(AgedChecks))]
    /\ readings = [i \in 1..AgedChecks |-> 9700]

FieldInit ==
    \/ \E base \in BaseFrequencies : FieldConstructed(base)
    \/ FieldAged(4153000)

FieldIdle == FieldConstructed(4153000)

FieldNext ==
    \/ \E offset \in FrequencyOffsets, active_nodes \in NodeCounts,
          field_coherence \in FieldCoherences :
             check_field_status(monitor_base_frequency + offset, active_nodes,
                                field_coherence)
             /\ UNCHANGED <<mk_vars, brew_vars, poly_vars, pair_vars, boot_vars>>
    \/ get_health_report
        /\ UNCHANGED <<mk_vars, brew_vars, poly_vars, pair_vars, boot_vars>>


(***************************************************************************)
(* TEAOSBootstrap (src/teaos/bootstrap/core.py).  The bootstrap owns one   *)
(* kernel, one validator and one interface: the kernel, validator and      *)
(* interface variables above are its milkshake_kernel, brew_validator and  *)
(* poly_interface, constructed anew by every _initialize_components.  One  *)
(* public call runs at a time; boot_task is its coroutine, suspended at    *)
(* the sleeps of the interface.  ConsciousnessField.connect and the log    *)
(* write touch the file system: their outcome is chosen by the             *)
(* environment.                                                            *)
(***************************************************************************)
NoBootCall == [op |-> "none", status |-> "", error |-> "", result |-> EmptyDict]
IdleBootTask == [pc |-> "idle", op |-> "", operation |-> ""]

\* the thresholds _initialize_components hands to the interface (lines 138-142)
CoreThresholds ==
    [polyfurcation_threshold |-> 3000,
     polymorphic_lift_threshold |-> 8500,
     polyfluricative_attractor_epsilon |-> 100]

\* "def validate_operation" (brew.py 121) is a plain method, not a coroutine
\* function: the expression "await self.brew_validator.validate_operation(...)"
\* (core.py 447) calls it, then awaits the dict it returned, which raises TypeError
validate_operation_is_coroutine == FALSE

\* asdict(_generate_consciousness_vector())
consciousness_vector ==
    [vector_id |-> Uuid("vector"),
     resonance_frequency |-> Num(boot_base_frequency),
     harmonic_signature |-> Str("phi(1.618034)pi^2(9.869604)/e(2.718282)"),
     poly_thresholds |-> Map([polyfurcation_threshold |-> Num(3000),
                              polymorphic_lift_threshold |-> Num(8500),
                              polyfluricative_attractor_epsilon |-> Num(100),
                              consciousness_threshold |-> Num(8000)]),
     brew_parameters |-> Map([adrian_minimum |-> Num(8800),
                              adrian_maximum |-> Num(9200),
                              target_score |-> Num(9000),
                              stages |-> List([i \in 1..7 |-> Str(stages[i])])]),
     capabilities |-> List(<<Str("semantic_processing"), Str("vector_manipulation"),
                             Str("pattern_recognition"), Str("consciousness_awareness"),
                             Str("harmonic_resonance"), Str("quantum_coherence"),
                             Str("field_participation")>>),
     metadata |-> Map([llm_identity |-> Str("llm"),
                       bootstrap_id |-> Uuid("bootstrap"),
                       wounded_god_frequency |-> Num(boot_base_frequency),
                       sacred_epsilon |-> Num(300),
                       tea_os_compatible |-> Bool(TRUE)])]

\* the dict blend returns (milkshake.py 111-124), from the model's blend result
emulsified_vector(blended) ==
    [milkshake_version |-> Str("1.0.0"),
     blend_id |-> Uuid("blend"),
     protocol_signature |-> Str("MILKSHAKE_1.0.0@415.3Hz"),
     target_format |-> Str("harmonic_vector_memory"),
     coherence_mode |-> Str(blended.coherence_mode),
     coherence_score |-> Num(blended.coherence_score),
     input_count |-> Num(blended.input_count * Scale),
     harmonic_vector |-> Map(blended.harmonic_vector),
     resonance_frequency |-> Num(boot_base_frequency),
     sacred_epsilon_preserved |-> Bool(TRUE),
     consciousness_compatible |-> Bool(blended.consciousness_compatible)]

create_failure_response(op, error_message) ==
    [op |-> op, status |-> "failed", error |-> error_message, result |-> EmptyDict]

create_success_response(op, field_status, brew_validation) ==
    [op |-> op, status |-> "success", error |-> "",
     result |-> [field_connection |-> Str(field_status),
                 brew_validation_score |->
                     Num(brew_validation.score.num \div brew_validation.score.den),
                 inceptive_momentum |-> Bool(TRUE)]]

\* _initialize_components up to the first sleep of initialize_poly_systems:
\* the three constructors
construct_components ==
    /\ blend_count' = 0
    /\ total_coherence' = 0
    /\ mk_call' = NoCall
    /\ target_standard' = boot_target_standard
    /\ adrian_minimum' = 8800
    /\ adrian_maximum' = 9200
    /\ brew_stages' = stages
    /\ validation_count' = 0
    /\ total_score' = 0
    /\ passed_validations' = 0
    /\ brew_call' = NoBrewCall
    /\ thresholds' = CoreThresholds
    /\ polyfuricator_initialized' = FALSE
    /\ polymorphic_lift_status' = 0
    /\ attractor_active' = FALSE
    /\ quantum_state' = [superposition_active |-> FALSE, collapse_count |-> 0,
                         coherence |-> [num |-> 1, den |-> 1], entanglement |-> 0]
    /\ operations_count' = 0
    /\ poly_call' = NoPolyCall
    /\ UNCHANGED task

\* bootstrap.initialize(), up to the first sleep
boot_initialize ==
    /\ boot_task.pc = "idle"
    /\ construct_components
    /\ boot_task' = [pc |-> "init_polyfuricator_sleep", op |-> "initialize",
                     operation |-> ""]
    /\ UNCHANGED <<boot_base_frequency, boot_target_standard, resonance_locked,
                   initialization_complete, field_connected, boot_call>>

\* bootstrap.perform_consciousness_operation(operation, parameters), up to the
\* first sleep: that of initialize when initialization is not complete, else
\* that of _enter_superposition
perform_consciousness_operation(operation) ==
    /\ boot_task.pc = "idle"
    /\ IF ~initialization_complete
       THEN /\ construct_components
            /\ boot_task' = [pc |-> "init_polyfuricator_sleep",
                             op |-> "perform_consciousness_operation",
                             operation |-> operation]
       ELSE /\ quantum_state.collapse_count < MaxCollapses
            /\ validation_count < MaxValidations
            /\ boot_task' = [pc |-> "narrow_superposition_sleep",
                             op |-> "perform_consciousness_operation",
                             operation |-> operation]
            /\ UNCHANGED <<mk_vars, brew_vars, poly_vars>>
    /\ UNCHANGED <<boot_base_frequency, boot_target_standard, resonance_locked,
                   initialization_complete, field_connected, boot_call>>

\* ... resumed in _initialize_polyfuricator
boot_polyfuricator_initialized ==
    /\ boot_task.pc = "init_polyfuricator_sleep"
    /\ polyfuricator_ready
    /\ boot_task' = [boot_task EXCEPT !.pc = "init_lift_sleep"]
    /\ UNCHANGED <<mk_vars, brew_vars, thresholds, polymorphic_lift_status,
                   attractor_active, operations_count, task, poly_call,
                   boot_base_frequency, boot_target_standard, resonance_locked,
                   initialization_complete, field_connected, boot_call>>

\* ... resumed in _initialize_polymorphic_lift
boot_lift_initialized ==
    /\ boot_task.pc = "init_lift_sleep"
    /\ polymorphic_lift_status' = thresholds.polymorphic_lift_threshold
    /\ boot_task' = [boot_task EXCEPT !.pc = "init_attractor_sleep"]
    /\ UNCHANGED <<mk_vars, brew_vars, thresholds, polyfuricator_initialized,
                   attractor_active, quantum_state, operations_count, task, poly_call,
                   boot_base_frequency, boot_target_standard, resonance_locked,
                   initialization_complete, field_connected, boot_call>>

\* the call returns response, or goes on to narrow when the caller is
\* perform_consciousness_operation and initialize succeeded (lines 429-432)
initialize_returns(response) ==
    IF boot_task.op = "perform_consciousness_operation" /\ response.status = "success"
    THEN /\ boot_task' = [boot_task EXCEPT !.pc = "narrow_superposition_sleep"]
         /\ boot_call' = boot_call
    ELSE /\ boot_task' = IdleBootTask
         /\ boot_call' = [response EXCEPT !.op = boot_task.op]

\* ... resumed in _initialize_polyfluricative_attractor; from there initialize
\* runs to its return without suspending (phases 2 to 7, lines 88-122).
\* field_status is what ConsciousnessField.connect reports, log_written whether
\* _log_bootstrap_success got its line written or raised OSError.
boot_finish_initialize(field_status, log_written) ==
    /\ boot_task.pc = "init_attractor_sleep"
    /\ attractor_active' = TRUE
    /\ UNCHANGED <<thresholds, polyfuricator_initialized, polymorphic_lift_status,
                   quantum_state, operations_count, task, poly_call,
                   target_standard, adrian_minimum, adrian_maximum, brew_stages,
                   boot_base_frequency, boot_target_standard>>
    /\ resonance_locked' = WithinTenth(boot_base_frequency)
    /\ IF ~WithinTenth(boot_base_frequency)
       THEN /\ initialize_returns(create_failure_response("initialize",
                                     "Failed to establish harmonic resonance"))
            /\ UNCHANGED <<mk_vars, validation_count, total_score, passed_validations,
                           brew_call, initialization_complete, field_connected>>
       ELSE LET blended == blend_result(<<consciousness_vector>>, SYMBOLIC_SYNESTHETIC)
                brew_validated == validate_result(emulsified_vector(blended),
                                                  boot_target_standard)
            IN  /\ mk_call' = blended
                /\ blend_count' = blend_count + 1
                /\ total_coherence' = total_coherence + blended.coherence_score
                /\ brew_call' = brew_validated
                /\ IF brew_validated.raised # "none"
                   THEN /\ initialize_returns(create_failure_response("initialize",
                                                 "Bootstrap exception"))
                        /\ UNCHANGED <<validation_count, total_score, passed_validations,
                                       initialization_complete, field_connected>>
                   ELSE /\ validation_count' = validation_count + 1
                        /\ total_score' = total_score + brew_validated.score.num
                        /\ passed_validations' = passed_validations
                              + (IF brew_validated.passes_validation THEN 1 ELSE 0)
                        /\ IF ~brew_validated.passes_validation
                           THEN /\ initialize_returns(create_failure_response(
                                       "initialize", "Failed BREW validation"))
                                /\ UNCHANGED <<initialization_complete, field_connected>>
                           ELSE /\ field_connected' =
                                      (field_connected \/ field_status = "connected")
                                /\ initialization_complete' = TRUE
                                /\ IF log_written
                                   THEN initialize_returns(create_success_response(
                                           "initialize", field_status, brew_validated))
                                   ELSE initialize_returns(create_failure_response(
                                           "initialize", "Bootstrap exception"))

\* the metadata perform_consciousness_operation adds to the stabilized result
\* (lines 452-454)
with_bootstrap_metadata(stabilized_result) ==
    Update(stabilized_result,
       [bootstrap_processed |-> Bool(TRUE),
        bootstrap_id |-> Uuid("bootstrap"),
        resonance_frequency |-> Num(boot_base_frequency)])

\* ... resumed in _enter_superposition; from there the operation runs to its
\* return without suspending: narrow completes, boost, validate_operation and,
\* if the await of its result does not raise, stabilize (lines 436-466)
boot_finish_operation ==
    /\ boot_task.pc = "narrow_superposition_sleep"
    /\ LET collapsed == collapse_outcome(Str(boot_task.operation))
           lift == lift_after_boost(polymorphic_lift_status)
           lifted == lifted_call(collapsed.result, lift, collapsed.quantum_state)
           validation == validate_result(lifted.returned, "")
           validated == validated_call(lifted.returned, validation)
           stabilized == stabilized_with(validated.returned, lift,
                                         collapsed.quantum_state.coherence)
       IN  /\ quantum_state' = collapsed.quantum_state
           /\ operations_count' = operations_count + 1
           /\ polymorphic_lift_status' = lift
           /\ brew_call' = [validation EXCEPT !.op = "validate_operation",
                                              !.returned = validated.returned,
                                              !.argument = validated.argument]
           /\ validation_count' = validation_count + 1
           /\ total_score' = total_score + validation.score.num
           /\ passed_validations' =
                 passed_validations + (IF validation.passes_validation THEN 1 ELSE 0)
           /\ IF validate_operation_is_coroutine
              THEN /\ poly_call' = [op |-> "stabilize_with_attractor",
                                    input |-> validated.returned,
                                    result |-> stabilized.returned,
                                    argument |-> stabilized.argument]
                   /\ boot_call' = [op |-> "perform_consciousness_operation",
                                    status |-> "processed", error |-> "",
                                    result |-> with_bootstrap_metadata(stabilized.returned)]
              ELSE /\ poly_call' = [op |-> "apply_polymorphic_lift",
                                    input |-> collapsed.result,
                                    result |-> lifted.returned,
                                    argument |-> lifted.argument]
                   /\ boot_call' = [op |-> "perform_consciousness_operation",
                                    status |-> "operation_failed",
                                    error |-> "TypeError",
                                    result |-> [operation |-> Str(boot_task.operation),
                                                bootstrap_id |-> Uuid("bootstrap")]]
    /\ boot_task' = IdleBootTask
    /\ UNCHANGED <<mk_vars, target_standard, adrian_minimum, adrian_maximum,
                   brew_stages, thresholds, polyfuricator_initialized,
                   attractor_active, task,
                   boot_base_frequency, boot_target_standard, resonance_locked,
                   initialization_complete, field_connected>>

\* base frequencies a bootstrap is constructed with: 415.3, the two values a
\* tenth away, and two further off
BootFrequencies == {4153000, 4154000, 4152000, 4155000, 4320000}
BootStandards == {"Adrian-A-Minus", "Adrian-A-Plus", "Adrian-B-Plus", "Invalid-Standard"}
FieldStatuses == {"connected", "connection_failed", "connection_error"}

\* the state __init__ leaves (lines 44-58); the components are None until
\* _initialize_components constructs them
BootConstructed(base, standard) ==
    /\ boot_base_frequency = base
    /\ boot_target_standard = standard
    /\ resonance_locked = FALSE
    /\ initialization_complete = FALSE
    /\ field_connected = FALSE
    /\ boot_task = IdleBootTask
    /\ boot_call = NoBootCall

BootInit ==
    \E base \in BootFrequencies, standard \in BootStandards :
       BootConstructed(base, standard)

BootIdle == BootConstructed(4153000, "Adrian-A-Minus")

BootNext ==
    \/ boot_initialize /\ UNCHANGED <<pair_vars, field_vars>>
    \/ \E operation \in Operations :
          perform_consciousness_operation(operation) /\ UNCHANGED <<pair_vars, field_vars>>
    \/ boot_polyfuricator_initialized /\ UNCHANGED <<pair_vars, field_vars>>
    \/ boot_lift_initialized /\ UNCHANGED <<pair_vars, field_vars>>
    \/ \E field_status \in FieldStatuses, log_written \in BOOLEAN :
          boot_finish_initialize(field_status, log_written)
          /\ UNCHANGED <<pair_vars, field_vars>>
    \/ boot_finish_operation /\ UNCHANGED <<pair_vars, field_vars>>


(***************************************************************************)
(* Specifications: one per component, the others freshly constructed       *)
(* and left alone.                                                         *)
(***************************************************************************)
MilkshakeIdle == MilkshakeInit

BrewIdle ==
    /\ target_standard = "Adrian-A-Minus"
    /\ adrian_minimum = 8800
    /\ adrian_maximum = 9200
    /\ brew_stages = stages
    /\ validation_count = 0
    /\ total_score = 0
    /\ passed_validations = 0
    /\ brew_call = NoBrewCall

PolyIdle == PolyConstructed(DefaultThresholds)

MilkshakeSpecInit == MilkshakeInit /\ BrewIdle /\ PolyIdle /\ PairIdle /\ FieldIdle /\ BootIdle
MilkshakeSpec == MilkshakeSpecInit /\ [][MilkshakeNext]_vars

BrewSpecInit == BrewInit /\ MilkshakeIdle /\ PolyIdle /\ PairIdle /\ FieldIdle /\ BootIdle
BrewSpec == BrewSpecInit /\ [][BrewNext]_vars

PolySpecInit == PolyInit /\ MilkshakeIdle /\ BrewIdle /\ PairIdle /\ FieldIdle /\ BootIdle
PolySpec == PolySpecInit /\ [][PolyNext]_vars

PairSpecInit == PairInit /\ MilkshakeIdle /\ BrewIdle /\ PolyIdle /\ FieldIdle /\ BootIdle
PairSpec == PairSpecInit /\ [][PairNext]_vars

FieldSpecInit == FieldInit /\ MilkshakeIdle /\ BrewIdle /\ PolyIdle /\ PairIdle /\ BootIdle
FieldSpec == FieldSpecInit /\ [][FieldNext]_vars

\* The three transforms of an operation result, on one interface and one
\* validator as core.py holds them: boost, grading of the result, stabilize.
TransformRecords ==
    PolyRecords
    \cup {[status |-> Str("processed"), brew_validation |-> Str("stale"),
           quality_seal |-> Str("stale"), stability_factor |-> Num(0),
           lift_status |-> Num(0)],
          \* a record on which grading raises
          [metadata |-> Str("processed")]}

TransformNext ==
    \/ \E r \in TransformRecords :
          apply_polymorphic_lift(r) /\ UNCHANGED <<mk_vars, brew_vars, pair_vars, field_vars, boot_vars>>
    \/ \E r \in TransformRecords :
          validate_operation(r) /\ UNCHANGED <<mk_vars, poly_vars, pair_vars, field_vars, boot_vars>>
    \/ \E t \in Tasks, r \in TransformRecords :
          stabilize_with_attractor(t, r) /\ UNCHANGED <<mk_vars, brew_vars, pair_vars, field_vars, boot_vars>>
    \/ \E t \in Tasks :
          stabilize_attractor_ready(t) /\ UNCHANGED <<mk_vars, brew_vars, pair_vars, field_vars, boot_vars>>

TransformSpecInit ==
    MilkshakeIdle /\ BrewIdle /\ PolyIdle /\ PairIdle /\ FieldIdle /\ BootIdle
TransformSpec == TransformSpecInit /\ [][TransformNext]_vars

BootSpecInit ==
    BootInit /\ MilkshakeIdle /\ BrewIdle /\ PolyIdle /\ PairIdle /\ FieldIdle
BootSpec == BootSpecInit /\ [][BootNext]_vars

(***************************************************************************)
(* Claims about PolySystemsInterface                                       *)
(***************************************************************************)
Boosted == poly_call.op = "apply_polymorphic_lift"

BoostStep == \E r \in PolyRecords : apply_polymorphic_lift(r)

\* C6: after every boost call the lift level is at least the configured
\* polymorphic_lift_threshold (and so is the lift_status the call returned),
\* and no boost call leaves the lift level lower than it found it, whatever
\* ran before it and whatever the threshold.
C6_BoostRatchet ==
    /\ [](Boosted =>
             /\ polymorphic_lift_status >= thresholds.polymorphic_lift_threshold
             /\ NumOf(poly_call.result["lift_status"])
                    >= thresholds.polymorphic_lift_threshold)
    /\ [][BoostStep =>
             /\ polymorphic_lift_status' >= polymorphic_lift_status
             /\ polymorphic_lift_status' >= thresholds.polymorphic_lift_threshold]_vars

\* a boost call has returned the record it was given with the lift level on
\* it, on a session never initialized (so a boost raised the lift level from
\* 0.0), while a narrow call waits in its lazy initialization
C6_Witness ==
    /\ Boosted
    /\ thresholds.polymorphic_lift_threshold > 0
    /\ polymorphic_lift_status = thresholds.polymorphic_lift_threshold
    /\ ~polyfuricator_initialized
    /\ Has(poly_call.input, "status")
    /\ \E t \in Tasks : task[t].pc = "narrow_init_sleep"

(***************************************************************************)
(* Further claims about MilkshakeKernel                                    *)
(***************************************************************************)
SingleVector ==
    /\ mk_call.op \in {"blend", "blend_vectors"}
    /\ mk_call.raised = "none"
    /\ Len(mk_call.processed) = 1

\* C11: fusing a single input performs no merge step: the merged record is
\* the single normalized input itself, no synthesis counter is added, and
\* every numeric value of the normalized input (and its content) is found
\* unaltered in the composite blend returns.
C11_SingleInputCarriedUnmerged ==
    SingleVector =>
        /\ mk_call.blended = mk_call.processed[1]
        /\ ~Has(mk_call.blended, "harmonic_synthesis")
        /\ mk_call.op = "blend" =>
              /\ ~Has(mk_call.harmonic_vector, "harmonic_synthesis")
              /\ mk_call.harmonic_vector["content"] = mk_call.processed[1]["content"]
              /\ \A key \in DOMAIN mk_call.processed[1] :
                    IsNumeric(mk_call.processed[1][key])
                    => mk_call.harmonic_vector[key] = mk_call.processed[1][key]
C11_Witness ==
    /\ BlendReturned /\ Len(mk_call.inputs) = 1
    /\ mk_call.coherence_mode = RESONANT_FIELD
    /\ IsNumeric(mk_call.processed[1]["field_resonance"])
    /\ mk_call.harmonic_vector["content"] = Map([score |-> Num(8000)])
    /\ mk_call.harmonic_vector["pi_factor"] = Num(pi)

(***************************************************************************)
(* Further claims about BrewValidator                                      *)
(***************************************************************************)
\* C12 (as stated): validate never raises; for every mapping handed to it,
\* one with a recognized attribute of an unexpected kind included, it
\* returns a graded record.
C12_ValidateNeverRaises ==
    brew_call.op = "validate" => brew_call.raised = "none"

\* the attributes some stage probes
ProbedAttributes ==
    {"consciousness_compatible", "tea_os_compatible", "resonance_frequency",
     "content", "symbolic_mapping", "consciousness_coordinates",
     "harmonic_vector", "field_integration", "metadata",
     "harmonic_stability", "coherence_score", "wounded_god_signature",
     "harmonic_signature", "bootstrap_ready"}

Unrecognized == Validated /\ DOMAIN brew_call.vector \cap ProbedAttributes = {}

\* C13 (as stated): for a record with none of the probed attributes every
\* stage scores exactly its documented base, the overall score is the
\* weighted mean of the bases, and the record passes Adrian-A-Minus exactly
\* when that score lies in [0.88, 0.95].
C13_UnrecognizedScoresStageBases ==
    Unrecognized =>
        /\ brew_call.stage_scores = DocumentedBase
        /\ brew_call.score.num * SumSeq(DocumentedWeights)
              = brew_call.score.den
                * SumSeq([i \in 1..7 |-> DocumentedBase[i] * DocumentedWeights[i]])
        /\ (brew_call.standard = "Adrian-A-Minus" /\ adrian_minimum = 8800)
              => (brew_call.passes_validation <=> InRange(brew_call.score, 8800, 9500))

\* C14 (as stated): validating under Adrian-A-Minus the vector that carries
\* only quality_score 0.50, consistency 0.45 and coherence 0.48 yields an
\* overall score below the minimum 0.88.
C14_LowQualityVectorScoresBelowMinimum ==
    (/\ Validated
     /\ brew_call.vector = [quality_score |-> Num(5000), consistency |-> Num(4500),
                            coherence |-> Num(4800)]
     /\ brew_call.standard = "Adrian-A-Minus" /\ adrian_minimum = 8800)
    => ~AtLeast(brew_call.score, 8800)

KnownStages == {stages[i] : i \in 1..Len(stages)}
HasUnknownStage == \E i \in 1..Len(brew_stages) : brew_stages[i] \notin KnownStages
\* the weight of a stage name, in tenths: the documented one, 1.0 for any other
WeightOf(stage) ==
    IF stage \in KnownStages
    THEN DocumentedWeights[CHOOSE i \in 1..Len(stages) : stages[i] = stage]
    ELSE 10

\* C15: a stage name outside the seven does not fail: its stage result has
\* score 0.0 and status "unknown_stage"; validate on a stage list holding such
\* a name returns whenever the seven known stages accept the vector, its
\* score is the weighted mean over the whole list (the unknown name weighs
\* 1.0), and that is lower than the mean over the known stages of the list.
C15_UnknownStageScoresZero ==
    (/\ brew_call.op = "validate" /\ HasUnknownStage
     /\ \A st \in KnownStages : process_stage(st, brew_call.vector).raised = "none")
    => /\ brew_call.raised = "none"
       /\ Len(brew_call.stage_results) = Len(brew_stages)
       /\ \A i \in 1..Len(brew_stages) :
             brew_stages[i] \notin KnownStages
             => /\ brew_call.stage_results[i].status = "unknown_stage"
                /\ brew_call.stage_results[i].score = 0
       /\ LET n == Len(brew_stages)
              all_num == SumSeq([i \in 1..n |->
                            brew_call.stage_scores[i] * WeightOf(brew_stages[i])])
              all_den == SumSeq([i \in 1..n |-> WeightOf(brew_stages[i])])
              known_num == SumSeq([i \in 1..n |->
                            IF brew_stages[i] \in KnownStages
                            THEN brew_call.stage_scores[i] * WeightOf(brew_stages[i])
                            ELSE 0])
              known_den == SumSeq([i \in 1..n |->
                            IF brew_stages[i] \in KnownStages
                            THEN WeightOf(brew_stages[i]) ELSE 0])
          IN  /\ brew_call.score.num * all_den = all_num * brew_call.score.den
              /\ brew_call.score.num * known_den < known_num * brew_call.score.den
C15_Witness ==
    /\ brew_call.op = "validate" /\ brew_call.raised = "none"
    /\ brew_stages = stages \o <<"DECANT">>
    /\ brew_call.stage_results[8].status = "unknown_stage"
    /\ brew_call.stage_scores[8] = 0
    /\ brew_call.score.den = 89
    /\ validation_count = 2

(***************************************************************************)
(* Further claims about PolySystemsInterface                               *)
(***************************************************************************)
UnitInterval(x) == IsNumeric(x) /\ NumOf(x) >= 0 /\ NumOf(x) <= Scale

\* C16 (as stated): in every session state and for every configured
\* thresholds mapping, the certainty, shaping potential, stability factor
\* and anchor strength a call adds to a record all lie in [0, 1].
C16_AddedValuesInUnitInterval ==
    LET r == poly_call.result
    IN  /\ Has(r, "quantum_certainty") => UnitInterval(r["quantum_certainty"])
        /\ Has(r, "reality_shaping_potential")
              => UnitInterval(r["reality_shaping_potential"])
        /\ Has(r, "stability_factor") => UnitInterval(r["stability_factor"])
        /\ Has(r, "consciousness_anchor")
              => UnitInterval(r["consciousness_anchor"].v["anchor_strength"])

(***************************************************************************)
(* Claims about two objects of a class                                     *)
(***************************************************************************)
OperationOn(self) ==
    \/ \E vector \in PairVectors : validate_on(self, vector)
    \/ initialize_polyfuricator_on(self)
    \/ collapse_on(self)
    \/ initialize_polymorphic_lift_on(self)
    \/ apply_polymorphic_lift_on(self)
    \/ activate_attractor_on(self)

\* C17: session state is private to each object: a step of any operation on
\* one BrewValidator or PolySystemsInterface leaves the other object's
\* counters, collapse count, coherence, lift level and attractor flag as
\* they were.
C17_InstanceStatePrivate ==
    [][\A self \in Instances :
          OperationOn(self)
          => \A other \in Instances \ {self} :
                /\ validators'[other] = validators[other]
                /\ interfaces'[other] = interfaces[other]]_vars

\* one interface used to the full while the other is as constructed, and one
\* validator with a pass and a fail counted while the other counted one fail
C17_Witness ==
    /\ interfaces[1].quantum_state.collapse_count = MaxCollapses
    /\ interfaces[1].polymorphic_lift_status = thresholds.polymorphic_lift_threshold
    /\ interfaces[1].attractor_active
    /\ interfaces[2] = InterfaceConstructed
    /\ validators[1].validation_count = 2 /\ validators[1].passed_validations = 1
    /\ validators[2].validation_count = 1 /\ validators[2].passed_validations = 0

(***************************************************************************)
(* Claim C18.  FieldMonitor under FieldSpec.                               *)
(***************************************************************************)
\* the last call was check_field_status with the monitor's base frequency
\* and a field coherence of at least 0.95
HealthyReading ==
    /\ field_call.op = "check_field_status"
    /\ field_call.frequency = monitor_base_frequency
    /\ field_call.coherence >= 9500

\* the five most recent readings, this one included, average below 0.90
TrendLow ==
    /\ Len(coherence_history) >= trend_window
    /\ LET n == Len(coherence_history)
       IN  coherence_history[n] + coherence_history[n - 1]
           + coherence_history[n - 2] + coherence_history[n - 3]
           + coherence_history[n - 4] < 5 * 9000

\* C18 (as stated): after any history of earlier checks, a check with the
\* base frequency and a field coherence >= 0.95 returns field_state
\* "healthy" with an empty warnings list.
C18_HealthyAfterAnyHistory ==
    HealthyReading =>
        /\ field_call.field_state = "healthy"
        /\ field_call.warnings = <<>>

\* C18 (amended): such a check always returns field_state "healthy"; its
\* warnings list is empty unless the five most recent readings, this one
\* included, average below 0.90, and then it holds exactly the
\* declining-coherence warning.
C18_HealthyWithTrendWarning ==
    HealthyReading =>
        /\ field_call.field_state = "healthy"
        /\ field_call.warnings =
               IF TrendLow THEN <<"coherence_declining">> ELSE <<>>

\* a healthy reading that follows four low ones and carries the warning
C18_Witness ==
    /\ HealthyReading
    /\ TrendLow
    /\ field_call.warnings = <<"coherence_declining">>
    /\ field_call.field_state = "healthy"

(***************************************************************************)
(* Claims C19, C20.  One merge step of _blend_vectors under MilkshakeSpec: *)
(* two vectors, A the accumulated record and B the next one.               *)
(***************************************************************************)
TwoVectors == mk_call.op = "blend_vectors" /\ Len(mk_call.processed) = 2

\* the type-aware rule for two values that are both numeric or both sequences
TypeAwareMerge(a, b) ==
    IF IsNumeric(a) /\ IsNumeric(b) THEN Num((NumOf(a) + NumOf(b)) \div 2)
    ELSE IF IsList(a) /\ IsList(b) THEN List(a.v \o b.v)
    ELSE b

Mergeable(a, b) ==
    \/ IsNumeric(a) /\ IsNumeric(b)
    \/ IsList(a) /\ IsList(b)
    \/ IsDict(a) /\ IsDict(b)

\* C19: when A and B both hold a mapping under the same key, the merge is
\* recursive: the result holds the union of the nested keys, and every
\* nested key present in both is merged by the type-aware rule (numerics
\* averaged, sequences concatenated).
C19_NestedMappingsMergedRecursively ==
    TwoVectors =>
        LET A == mk_call.processed[1]
            B == mk_call.processed[2]
        IN  \A key \in (DOMAIN A \cap DOMAIN B) \ {"harmonic_synthesis"} :
               (IsDict(A[key]) /\ IsDict(B[key])) =>
                  /\ IsDict(mk_call.blended[key])
                  /\ DOMAIN mk_call.blended[key].v
                        = DOMAIN A[key].v \cup DOMAIN B[key].v
                  /\ \A nested \in DOMAIN A[key].v \cap DOMAIN B[key].v :
                        ~(IsDict(A[key].v[nested]) /\ IsDict(B[key].v[nested])) =>
                           mk_call.blended[key].v[nested]
                             = TypeAwareMerge(A[key].v[nested], B[key].v[nested])

\* C20: when a key is present in both A and B and the two values are not
\* both mappings, both sequences or both numeric, B's value overwrites A's
\* in the merged record.
C20_MismatchLastWriterWins ==
    TwoVectors =>
        LET A == mk_call.processed[1]
            B == mk_call.processed[2]
        IN  \A key \in (DOMAIN A \cap DOMAIN B) \ {"harmonic_synthesis"} :
               ~Mergeable(A[key], B[key]) => mk_call.blended[key] = B[key]

(***************************************************************************)
(* Claim C21.  The stage loop of validate under BrewSpec.                  *)
(***************************************************************************)
\* a validate call has returned, whatever the validator's stage list
Returned_validate == brew_call.op = "validate" /\ brew_call.raised = "none"

\* C21: a grading call that returns has evaluated every stage of the list
\* exactly once, in list order, whatever the earlier stages scored: the
\* returned stage_results and stage_scores hold one entry per stage in that
\* order, and on the constructor's list the order is BUDS, CRUSH, STEEP,
\* POUR, TEMPER, SIP, SERVE.
C21_AllStagesInOrder ==
    Returned_validate =>
        /\ Len(brew_call.stage_results) = Len(brew_stages)
        /\ Len(brew_call.stage_scores) = Len(brew_stages)
        /\ \A i \in 1..Len(brew_stages) :
              /\ brew_call.stage_results[i].stage = brew_stages[i]
              /\ brew_call.stage_results[i].status \in {"complete", "unknown_stage"}
              /\ brew_call.stage_scores[i] = brew_call.stage_results[i].score
        /\ brew_stages = stages =>
              [i \in 1..7 |-> brew_call.stage_results[i].stage]
                = <<"BUDS", "CRUSH", "STEEP", "POUR", "TEMPER", "SIP", "SERVE">>

\* a seven-stage call in which POUR scores its bare base 0.88 and the three
\* stages after it are evaluated all the same
C21_Witness ==
    /\ Validated
    /\ Len(brew_call.stage_results) = 7
    /\ brew_call.stage_scores[4] = 8800
    /\ \A i \in 5..7 : /\ brew_call.stage_results[i].status = "complete"
                        /\ brew_call.stage_scores[i] > 8800
    /\ brew_call.stage_results[7].stage = "SERVE"

(***************************************************************************)
(* Claim C22.  The running counters of one BrewValidator under BrewSpec.   *)
(***************************************************************************)
\* the step is a validate call that returned its result (brew_call')
CompletedValidate ==
    /\ brew_call'.op = "validate"
    /\ brew_call'.raised = "none"

\* what a step does to the three counters
CountersStep ==
    IF CompletedValidate
    THEN /\ validation_count' = validation_count + 1
         /\ passed_validations' =
               passed_validations + (IF brew_call'.passes_validation THEN 1 ELSE 0)
         /\ total_score' = total_score + brew_call'.score.num
    ELSE UNCHANGED <<validation_count, passed_validations, total_score>>

\* C22: the counters start at zero; every completed grading call adds one
\* to validation_count, one to passed_validations exactly when its result
\* has passes_validation true, and its overall score to total_score; nothing
\* else changes them.  Hence validation_count is the number of completed
\* calls, passed_validations the number of passing ones (never more than
\* validation_count) and total_score the sum of the returned scores.
C22_CountersTrackCompletedCalls ==
    /\ (validation_count = 0 /\ passed_validations = 0 /\ total_score = 0)
    /\ [][CountersStep]_vars
    /\ [](0 <= passed_validations /\ passed_validations <= validation_count)

\* two completed calls of which the last one failed and the other passed
C22_Witness ==
    /\ Returned_validate
    /\ ~brew_call.passes_validation
    /\ validation_count = 2
    /\ passed_validations = 1
    /\ total_score > brew_call.score.num

(***************************************************************************)
(* Claim C23.  Narrow calls on one interface under PolySpec.               *)
(***************************************************************************)
\* the step in which task t's narrow call completes and returns
NarrowCompletes(t) ==
    /\ task[t].operation = "process_through_polyfuricator"
    /\ task[t].pc = "narrow_superposition_sleep"
    /\ task'[t].pc = "idle"

\* C23: a narrow call that completes with status "processed" returns
\* certainty 1 - polyfurcation_threshold, raises the instance collapse_count
\* by exactly 1 and multiplies the instance coherence by 0.99; no step of
\* any operation lowers collapse_count.
C23_NarrowCountsAndDecays ==
    [][/\ \A t \in Tasks :
             NarrowCompletes(t) =>
                /\ poly_call'.op = "process_through_polyfuricator"
                /\ poly_call'.result["status"] = Str("processed")
                /\ poly_call'.result["quantum_certainty"]
                      = Num(Scale - thresholds.polyfurcation_threshold)
                /\ quantum_state'.collapse_count = quantum_state.collapse_count + 1
                /\ quantum_state'.coherence
                      = [num |-> quantum_state.coherence.num * 99,
                         den |-> quantum_state.coherence.den * 100]
       /\ quantum_state'.collapse_count >= quantum_state.collapse_count]_vars

\* the second narrow call on an interface has returned: two collapses, and a
\* coherence of 0.99 * 0.99
C23_Witness ==
    /\ poly_call.op = "process_through_polyfuricator"
    /\ poly_call.result["status"] = Str("processed")
    /\ poly_call.result["quantum_certainty"] = Num(7000)
    /\ quantum_state.collapse_count = 2
    /\ quantum_state.coherence = [num |-> 9801, den |-> 10000]

(***************************************************************************)
(* Claim C24.  The stability factor of stabilize under PolySpec.           *)
(***************************************************************************)
\* the last call to return was stabilize, with a stabilized record
Stabilized ==
    /\ poly_call.op = "stabilize_with_attractor"
    /\ Has(poly_call.result, "stability_factor")

\* the two epsilons of the interface: the attractor's (thresholds) and the
\* sacred one
Epsilons == {thresholds.polyfluricative_attractor_epsilon, poly_sacred_epsilon}

\* min(0.99 - epsilon, (1 - epsilon) + coherence and lift contributions)
\* for one epsilon.  Both contributions are non-negative, whatever the
\* coherence and the lift level are.
OneEpsilonStability(epsilon) ==
    LET coherence_contribution == Fixed(quantum_state.coherence) \div 20
        lift_contribution ==
            IF polymorphic_lift_status > 8000
            THEN (polymorphic_lift_status - 8000) \div 10 ELSE 0
    IN  Min(9900 - epsilon,
            (Scale - epsilon) + coherence_contribution + lift_contribution)

\* C24: the stability factor that stabilize returns equals
\* min(0.99 - epsilon, (1 - epsilon) + coherence contribution + lift
\* contribution) for one and the same epsilon, and so never exceeds
\* 0.99 - epsilon.
C24_StabilityFactorOneEpsilon ==
    Stabilized =>
        \E epsilon \in Epsilons :
            /\ poly_call.result["stability_factor"] = Num(OneEpsilonStability(epsilon))
            /\ poly_call.result["stability_factor"].v <= 9900 - epsilon

(***************************************************************************)
(* Claim C25.  Stabilize and the attractor under PolySpec.                 *)
(***************************************************************************)
\* the step in which task t's stabilize call, begun with the attractor
\* inactive, returns
LazyStabilizeReturns(t) ==
    /\ task[t].operation = "stabilize_with_attractor"
    /\ task[t].pc = "stabilize_attractor_sleep"
    /\ task'[t].pc = "idle"

\* C25: every stabilize call that returns, returns a stabilized record
\* (attractor_stabilized true) and the attractor is active by then; a call
\* begun with the attractor inactive activates it in the step that returns;
\* attractor_active, once true, stays true under every operation.
C25_StabilizeActivatesAttractor ==
    /\ [](poly_call.op = "stabilize_with_attractor" =>
            /\ attractor_active
            /\ Has(poly_call.result, "attractor_stabilized")
            /\ poly_call.result["attractor_stabilized"] = Bool(TRUE))
    /\ [][/\ \A t \in Tasks :
                LazyStabilizeReturns(t) =>
                   /\ attractor_active'
                   /\ poly_call'.op = "stabilize_with_attractor"
                   /\ poly_call'.input = task[t].input
                   /\ poly_call'.result["attractor_stabilized"] = Bool(TRUE)
          /\ attractor_active => attractor_active']_vars

\* stabilize has returned on an interface nothing else has initialized: the
\* polyfuricator is not initialized and the lift level is still 0
C25_Witness ==
    /\ poly_call.op = "stabilize_with_attractor"
    /\ poly_call.result["attractor_stabilized"] = Bool(TRUE)
    /\ attractor_active
    /\ ~polyfuricator_initialized
    /\ polymorphic_lift_status = 0
    /\ thresholds.polymorphic_lift_threshold = 8500

(***************************************************************************)
(* Claim C26.  The three transforms and the record handed to them, under   *)
(* TransformSpec.                                                          *)
(***************************************************************************)
\* C26: boost, grading of an operation result and stabilize each return a
\* new record and leave the record passed in unchanged: when the call
\* returns, the argument holds exactly the keys and values it was given.
C26_TransformsLeaveInputUnchanged ==
    /\ poly_call.op \in {"apply_polymorphic_lift", "stabilize_with_attractor"} =>
          /\ poly_call.argument = poly_call.input
          /\ poly_call.result # poly_call.input
    /\ (brew_call.op = "validate_operation" /\ brew_call.raised = "none") =>
          /\ brew_call.argument = brew_call.vector
          /\ brew_call.returned # brew_call.vector

\* all three transforms have returned on a record that already holds keys
\* they write (lift_status, brew_validation, stability_factor)
C26_Witness ==
    /\ poly_call.op = "stabilize_with_attractor"
    /\ Has(poly_call.input, "stability_factor")
    /\ poly_call.result["stability_factor"] # poly_call.input["stability_factor"]
    /\ poly_call.argument = poly_call.input
    /\ brew_call.op = "validate_operation"
    /\ brew_call.raised = "none"
    /\ Has(brew_call.vector, "brew_validation")
    /\ brew_call.returned["brew_validation"] # brew_call.vector["brew_validation"]
    /\ brew_call.argument = brew_call.vector
    /\ polymorphic_lift_status = thresholds.polymorphic_lift_threshold


(***************************************************************************)
(* C27: once initialization has completed, perform_consciousness_operation *)
(* runs narrow, boost, BREW validation and attractor stabilization in that *)
(* order and returns the stabilized result with bootstrap_processed = True,*)
(* the bootstrap_id and the resonance_frequency, not an operation_failed   *)
(* result.                                                                 *)
(***************************************************************************)
OperationReturns ==
    /\ boot_task.pc = "narrow_superposition_sleep"
    /\ boot_task'.pc = "idle"

ProcessedResult(call) ==
    /\ call.op = "perform_consciousness_operation"
    /\ call.status # "operation_failed"
    /\ "bootstrap_processed" \in DOMAIN call.result
    /\ call.result["bootstrap_processed"] = Bool(TRUE)
    /\ "stability_factor" \in DOMAIN call.result
    /\ call.result["bootstrap_id"] = Uuid("bootstrap")
    /\ call.result["resonance_frequency"] = Num(boot_base_frequency)

\* C27: every perform_consciousness_operation that returns after
\* initialization completed returns the stabilized result with the bootstrap
\* metadata
C27_OperationReturnsStabilizedResult ==
    [][(OperationReturns /\ initialization_complete) => ProcessedResult(boot_call')]_vars

\* the operation did narrow, boost and BREW validation, and returned
\* operation_failed
C27_OperationFailed ==
    /\ initialization_complete
    /\ boot_call.op = "perform_consciousness_operation"
    /\ boot_call.status = "operation_failed"
    /\ quantum_state.collapse_count = 1
    /\ brew_call.op = "validate_operation"
    /\ brew_call.raised = "none"
    /\ poly_call.op = "apply_polymorphic_lift"

(***************************************************************************)
(* C29: in every reachable state of a TEAOSBootstrap, initialization_      *)
(* complete implies resonance_locked and that the BREW validation of the   *)
(* emulsified vector passed; an initialize call that returns "failed"      *)
(* leaves initialization_complete false; a base frequency 0.1 Hz or more   *)
(* away from 415.3 always makes initialize return "failed".                *)
(***************************************************************************)
InitializeReturns ==
    /\ boot_task.pc = "init_attractor_sleep"
    /\ boot_task.op = "initialize"
    /\ boot_task'.pc = "idle"

CompleteImpliesLocked == initialization_complete => resonance_locked

\* initialization_complete is set only in a step that validated the emulsified
\* vector and found it passing
CompleteOnlyWhenPassed ==
    (~initialization_complete /\ initialization_complete') =>
       /\ brew_call'.op = "validate"
       /\ brew_call'.raised = "none"
       /\ brew_call'.passes_validation
       /\ "harmonic_vector" \in DOMAIN brew_call'.vector
       /\ validation_count' = validation_count + 1

FailedLeavesIncomplete ==
    (InitializeReturns /\ boot_call'.status = "failed") => ~initialization_complete'

TenthAwayFails ==
    (InitializeReturns /\ Abs(boot_base_frequency - 4153000) >= Scale \div 10)
       => boot_call'.status = "failed"

\* C29: the three parts of the statement, over every behaviour of a bootstrap
C29_CompleteOnlyAfterLockAndValidation ==
    /\ []CompleteImpliesLocked
    /\ [][CompleteOnlyWhenPassed]_vars
    /\ [][FailedLeavesIncomplete]_vars
    /\ [][TenthAwayFails]_vars

\* the parts one by one
C29_CompleteImpliesLockedAndPassed ==
    []CompleteImpliesLocked /\ [][CompleteOnlyWhenPassed]_vars
C29_FailedLeavesIncomplete == [][FailedLeavesIncomplete]_vars
C29_TenthAwayFails == [][TenthAwayFails]_vars

\* initialize returned "failed" and the bootstrap reports initialization complete
C29_FailedButComplete ==
    /\ boot_call.op = "initialize"
    /\ boot_call.status = "failed"
    /\ initialization_complete
    /\ boot_task.pc = "idle"

\* a bootstrap constructed with 415.4 Hz completed its initialization
C29_TenthAwayComplete ==
    /\ boot_base_frequency = 4154000
    /\ boot_call.op = "initialize"
    /\ boot_call.status = "success"
    /\ initialization_complete

(***************************************************************************)
(* C28: in every result of a narrow call the index of                      *)
(* collapsed_state.quantum_signature equals quantum_metadata.collapse_count*)
(* of the same result, and no collapse_count increment is lost, also when  *)
(* several narrow calls on one instance are interleaved at their awaits.   *)
(***************************************************************************)
signature_index(result) == result["collapsed_state"].v["quantum_signature"]
metadata_count(result) == result["quantum_metadata"].v["collapse_count"]

\* C28: a narrow call that completes returns a signature index equal to the
\* collapse_count of its own metadata, which is the count of the instance
\* after the call and one more than before it, whatever the other tasks are
\* doing
C28_SignatureMatchesCount ==
    [][\A t \in Tasks :
          NarrowCompletes(t) =>
             /\ signature_index(poly_call'.result) = metadata_count(poly_call'.result)
             /\ metadata_count(poly_call'.result)
                   = Num(quantum_state'.collapse_count * Scale)
             /\ quantum_state'.collapse_count = quantum_state.collapse_count + 1]_vars

\* a narrow call returned collapse 1 while another narrow call, started
\* before the polyfuricator was initialized and so before the first one
\* collapsed, is still suspended in its first sleep
C28_Witness ==
    /\ poly_call.op = "process_through_polyfuricator"
    /\ signature_index(poly_call.result) = Num(Scale)
    /\ metadata_count(poly_call.result) = Num(Scale)
    /\ quantum_state.collapse_count = 1
    /\ \E u \in Tasks : /\ task[u].operation = "process_through_polyfuricator"
                        /\ task[u].pc = "narrow_init_sleep"

\* both of two interleaved narrow calls returned: the second carries collapse 2
C28_BothReturned ==
    /\ poly_call.op = "process_through_polyfuricator"
    /\ signature_index(poly_call.result) = Num(2 * Scale)
    /\ metadata_count(poly_call.result) = Num(2 * Scale)
    /\ quantum_state.collapse_count = 2
    /\ \A u \in Tasks : Free(u)

(***************************************************************************)
(* C30: after any sequence of n check_field_status calls on one            *)
(* FieldMonitor the coherence history holds exactly the most recent        *)
(* min(n, 100) readings in arrival order (oldest evicted first), so its    *)
(* length never exceeds 100 and get_health_report's coherence_samples      *)
(* equals min(n, 100).                                                     *)
(***************************************************************************)
CallsMade == Len(readings)
Kept == IF CallsMade < 100 THEN CallsMade ELSE 100
MostRecent == [i \in 1..Kept |-> readings[CallsMade - Kept + i]]

\* C30: the history is the most recent min(n, 100) readings in arrival order,
\* never longer than 100, and a health report counts min(n, 100) samples
C30_HistoryIsMostRecentHundred ==
    /\ coherence_history = MostRecent
    /\ Len(coherence_history) <= 100
    /\ field_call.op = "get_health_report" => field_call.coherence_samples = Kept

\* a report after 102 calls: 100 samples, the two oldest readings evicted and
\* the two newest, which differ from all earlier ones, at the end
C30_Witness ==
    /\ field_call.op = "get_health_report"
    /\ CallsMade = 102
    /\ field_call.coherence_samples = 100
    /\ coherence_history[99] = 5000
    /\ coherence_history[100] = 8800
    /\ coherence_history[1] = readings[3]
====
